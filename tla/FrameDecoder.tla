---------------------------- MODULE FrameDecoder ----------------------------
(***************************************************************************)
(* me::net::FrameDecoder, used as its comment says: Feed with whatever     *)
(* recv returned, then TryExtractFrame until it returns false.  The chunks *)
(* cut the stream anywhere.  Compact moves the unread bytes to the front   *)
(* of the buffer from time to time.                                        *)
(***************************************************************************)
EXTENDS Framing

VARIABLES
    buffer,          \* buffer_
    read_offset,     \* read_offset_
    caller,          \* the caller: "feeding", "extracting", or "closed"
    fed,             \* history: every byte ever fed
    consumed,        \* history: how many of them were handed out in frames
    frames           \* history: the bodies handed out

dvars == <<buffer, read_offset>>
vars == <<buffer, read_offset, caller, fed, consumed, frames>>

Available == Len(buffer) - read_offset

DecoderInit == buffer = << >> /\ read_offset = 0

Init ==
    /\ DecoderInit
    /\ caller = "feeding"
    /\ fed = << >> /\ consumed = 0 /\ frames = << >>

(* Mutants: the unread bytes go with the read ones; nothing is dropped     *)
(* until all of it was read.                                               *)
CompactAll(offset) ==
    IF offset * 2 > Len(buffer)
    THEN buffer' = << >> /\ read_offset' = 0
    ELSE buffer' = buffer /\ read_offset' = offset

CompactNever(offset) ==
    IF offset = Len(buffer)
    THEN buffer' = << >> /\ read_offset' = 0
    ELSE buffer' = buffer /\ read_offset' = offset

(* Compact, with read_offset_ = offset when it is called.                  *)
Compact(offset) ==
    IF offset = Len(buffer)
    THEN buffer' = << >> /\ read_offset' = 0
    ELSE IF offset > 0 /\ offset * 2 > Len(buffer)
    THEN buffer' = SubSeq(buffer, offset + 1, Len(buffer)) /\ read_offset' = 0
    ELSE buffer' = buffer /\ read_offset' = offset

Feed(data) ==
    /\ caller = "feeding"
    /\ buffer' = buffer \o data
    /\ fed' = fed \o data
    /\ caller' = "extracting"
    /\ UNCHANGED <<read_offset, consumed, frames>>

(* Mutant: a frame is handed out when all but one of its bytes are there.  *)
ExtractFrameEarly ==
    LET length == DeclaredLength(buffer, read_offset)
        end == read_offset + kLengthPrefixBytes + length
    IN  /\ caller = "extracting"
        /\ Available >= kLengthPrefixBytes
        /\ length <= kMaxFrameBytes
        /\ Available + 1 >= kLengthPrefixBytes + length
        /\ frames' = Append(frames, SubSeq(buffer, read_offset + kLengthPrefixBytes + 1,
                                           IF end > Len(buffer) THEN Len(buffer) ELSE end))
        /\ consumed' = consumed + kLengthPrefixBytes + length
        /\ Compact(IF end > Len(buffer) THEN Len(buffer) ELSE end)
        /\ UNCHANGED <<caller, fed>>

(* TryExtractFrame returns true.                                           *)
ExtractFrame ==
    LET length == DeclaredLength(buffer, read_offset)
        end == read_offset + kLengthPrefixBytes + length
    IN  /\ caller = "extracting"
        /\ Available >= kLengthPrefixBytes
        /\ length <= kMaxFrameBytes
        /\ Available >= kLengthPrefixBytes + length
        /\ frames' = Append(frames, SubSeq(buffer, read_offset + kLengthPrefixBytes + 1, end))
        /\ consumed' = consumed + kLengthPrefixBytes + length
        /\ Compact(end)
        /\ UNCHANGED <<caller, fed>>

(* It returns false: the next frame is not complete.                       *)
NoFrame ==
    /\ caller = "extracting"
    /\ \/ Available < kLengthPrefixBytes
       \/ /\ Available >= kLengthPrefixBytes
          /\ DeclaredLength(buffer, read_offset) <= kMaxFrameBytes
          /\ Available < kLengthPrefixBytes + DeclaredLength(buffer, read_offset)
    /\ Compact(read_offset)
    /\ caller' = "feeding"
    /\ UNCHANGED <<fed, consumed, frames>>

(* Mutant: a frame of the maximal length is refused.                       *)
ProtocolErrorAtLimit ==
    /\ caller = "extracting"
    /\ Available >= kLengthPrefixBytes
    /\ DeclaredLength(buffer, read_offset) >= kMaxFrameBytes
    /\ caller' = "closed"
    /\ UNCHANGED <<dvars, fed, consumed, frames>>

(* It returns false with protocol_error, and the caller gives up.          *)
ProtocolError ==
    /\ caller = "extracting"
    /\ Available >= kLengthPrefixBytes
    /\ DeclaredLength(buffer, read_offset) > kMaxFrameBytes
    /\ caller' = "closed"
    /\ UNCHANGED <<dvars, fed, consumed, frames>>

TryExtractFrame == ExtractFrame \/ NoFrame \/ ProtocolError

(* recv returned at least one byte.                                        *)
Chunks == Seq(Byte) \ {<< >>}

Next == TryExtractFrame \/ \E data \in Chunks : Feed(data)

Spec == Init /\ [][Next]_vars

-----------------------------------------------------------------------------
(* Properties.                                                             *)

(* The offset points into the buffer and the buffer holds bytes.           *)
TypeOK ==
    /\ buffer \in Seq(Byte) /\ fed \in Seq(Byte)
    /\ read_offset \in 0 .. Len(buffer)
    /\ consumed \in 0 .. Len(fed)
    /\ frames \in Seq(Seq(Byte))
    /\ caller \in {"feeding", "extracting", "closed"}

(* Through every move of Compact the unread part of the buffer is exactly  *)
(* what was fed and not yet handed out: no byte lost, repeated or moved.   *)
UnreadIsTheRest ==
    /\ Available = Len(fed) - consumed
    /\ \A i \in 1 .. Available : buffer[read_offset + i] = fed[consumed + i]

(* Wherever recv cuts the stream, the frames are the ones that reading it  *)
(* in one piece gives: a prefix of them while extracting, all of them once *)
(* TryExtractFrame returned false.                                         *)
CutsDoNotMatter ==
    LET whole == FramesOf(fed)
    IN  /\ Len(frames) <= Len(whole)
        /\ \A i \in DOMAIN frames : frames[i] = whole[i]
        /\ caller # "extracting" => frames = whole

(* The decoder reports a protocol error exactly when the first frame that  *)
(* it cannot hand out is oversized, and never before the good ones.        *)
ErrorIsReal ==
    /\ caller = "closed" => Oversized(fed, consumed)
    /\ caller = "feeding" => ~Oversized(fed, consumed)

(* When the caller is back to waiting for bytes, consumed bytes make up at *)
(* most half of the buffer and less than one frame is unread: the buffer   *)
(* does not grow with the length of the stream.                            *)
BufferBounded ==
    caller = "feeding" =>
        /\ read_offset * 2 <= Len(buffer)
        /\ Len(buffer) < 2 * (kLengthPrefixBytes + kMaxFrameBytes)
=============================================================================
