-------------------------------- MODULE Wire --------------------------------
(***************************************************************************)
(* Messages on their way over a connection: the sender encodes and frames  *)
(* values, recv cuts the bytes anywhere, FrameDecoder puts the bodies      *)
(* together again and the receiver decodes them.  A body may have lost     *)
(* bytes at its end or be followed by others, as in a torn file.  The      *)
(* order records of a snapshot, which have no frames of their own, travel  *)
(* as bodies too.                                                          *)
(***************************************************************************)
EXTENDS FrameDecoder, Protocol

VARIABLES
    sent,    \* what the sender framed: the value, what was lost, the body
    stream   \* the bytes of all frames

wvars == <<vars, sent, stream>>

(* Every field of a value differs from the others, and one field at a time *)
(* takes the values at the edges of its kind.                              *)
Edges(kind) ==
    CASE kind = "Bool" -> BOOLEAN
      [] kind = "U8" -> {0, 9}
      [] kind = "I64" -> LET half == Span(kind) \div 2
                         IN  {-half, -1, 0, ByteModulus, half - 1}
      [] OTHER -> {0, ByteModulus - 1, ByteModulus, Span(kind) - 1}

Plain(layout) ==
    [f \in {layout[i][1] : i \in DOMAIN layout} |->
        LET i == CHOOSE j \in DOMAIN layout : layout[j][1] = f
        IN  IF layout[i][2] = "Bool" THEN TRUE ELSE i]

Varied(layout) ==
    UNION {{[Plain(layout) EXCEPT ![layout[i][1]] = v] : v \in Edges(layout[i][2])} :
              i \in DOMAIN layout}

Commands ==
    UNION {[type : {t}, fields : Varied(CommandWritten[t])] : t \in CommandTypes}
Events ==
    UNION {[type : {t}, fields : Varied(EventHeader \o EventWritten[t])] :
              t \in EventTypes}
Orders == [type : {"Order"}, fields : Varied(OrderWritten)]

Encoded(v) ==
    CASE v.type \in CommandTypes -> EncodeCommand(v)
      [] v.type \in EventTypes -> EncodeEvent(v)
      [] v.type = "Order" -> WriteOrder(v.fields)

PlainValues ==
    [type : {"Order"}, fields : {Plain(OrderWritten)}]
    \cup UNION {[type : {t}, fields : {Plain(CommandWritten[t])}] : t \in CommandTypes}
    \cup UNION {[type : {t}, fields : {Plain(EventHeader \o EventWritten[t])}] :
                   t \in EventTypes}

(* A value whose encoding lost bytes at the end, or got some more.         *)
Whole(v) == [value |-> v, lost |-> 0, body |-> Encoded(v)]
Cut(v, n) ==
    [value |-> v, lost |-> n, body |-> SubSeq(Encoded(v), 1, Len(Encoded(v)) - n)]
Followed(v, b) == [value |-> v, lost |-> 0, body |-> Append(Encoded(v), b)]

(* A body without a message: n zero bytes.                                 *)
Zeros(n) == [value |-> nullopt, lost |-> 0, body |-> [i \in 1 .. n |-> 0]]

(* One message and a frame behind it; frames at the limits of their size.  *)
Conversations ==
    {<<Whole(v), Zeros(1)>> : v \in Commands \cup Events \cup Orders}
    \cup UNION {{<<Cut(v, n), Zeros(1)>> : n \in 1 .. Len(Encoded(v))} : v \in PlainValues}
    \cup {<<Followed(v, b), Zeros(1)>> : v \in PlainValues, b \in {0, ByteModulus - 1}}
    \cup {<<Zeros(a), Zeros(b), Zeros(c)>> : a, b, c \in 0 .. 2}
    \cup {<<Zeros(1), Zeros(n), Zeros(1)>> : n \in {kMaxFrameBytes, kMaxFrameBytes + 1}}

WInit ==
    /\ Init
    /\ sent \in Conversations
    /\ stream = FlattenSeq([i \in DOMAIN sent |-> FrameMessage(sent[i].body)])

(* recv returns the next n bytes.                                          *)
Recv(n) == Feed(SubSeq(stream, Len(fed) + 1, Len(fed) + n))

WNext ==
    /\ TryExtractFrame \/ \E n \in 1 .. (Len(stream) - Len(fed)) : Recv(n)
    /\ UNCHANGED <<sent, stream>>

WSpec == WInit /\ [][WNext]_wvars

-----------------------------------------------------------------------------
(* What each decoder makes of a complete value, wherever recv cut it: the  *)
(* value itself, field by field, with negative prices and the largest      *)
(* numbers, and nothing in the decoder of the other direction.  Bytes      *)
(* behind it are left alone, so that the next record of a snapshot starts  *)
(* where this one ended.                                                   *)
RoundTrip ==
    \A i \in {j \in DOMAIN frames : sent[j].lost = 0} :
        LET value == sent[i].value
            body == frames[i]
            order == ReadOrder(Reader(body))
        IN  IF value.type = "Order"
            THEN /\ order.ok /\ order.fields = value.fields
                 /\ order.pos = Len(Encoded(value))
            ELSE /\ DecodeCommand(body) =
                       IF value.type \in CommandTypes THEN value ELSE nullopt
                 /\ DecodeEvent(body) =
                       IF value.type \in EventTypes THEN value ELSE nullopt

(* A value that lost bytes is refused, however many: a torn record never   *)
(* becomes another command, event or order.                                *)
ShortIsRefused ==
    \A i \in {j \in DOMAIN frames : sent[j].lost > 0} :
        IF sent[i].value.type = "Order" THEN ~ReadOrder(Reader(frames[i])).ok
        ELSE DecodeCommand(frames[i]) = nullopt /\ DecodeEvent(frames[i]) = nullopt
=============================================================================
