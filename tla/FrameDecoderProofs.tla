------------------------- MODULE FrameDecoderProofs -------------------------
(***************************************************************************)
(* Proofs about FrameDecoder for every byte width, frame limit and stream, *)
(* however long.  The inductive invariant is TypeOK and UnreadIsTheRest:   *)
(* with them the decoder reads the same length in the buffer as a reader   *)
(* of the whole stream would.                                              *)
(***************************************************************************)
EXTENDS FrameDecoder, SequenceTheorems, TLAPS

(* The provers may spend twenty seconds on a leaf.                         *)
USE SMTT(20), Z3T(20), ZenonT(20)

(* A declared length is a natural number.                                  *)
LEMMA DeclaredLengthNat ==
    ASSUME NEW s \in Seq(Byte), NEW i \in Nat, i + 4 <= Len(s)
    PROVE  DeclaredLength(s, i) \in Nat
<1>1. ByteModulus \in Nat
  BY FramingAssumption
<1>2. s[i + 1] \in Nat /\ s[i + 2] \in Nat /\ s[i + 3] \in Nat /\ s[i + 4] \in Nat
  <2>1. i + 1 \in 1 .. Len(s) /\ i + 2 \in 1 .. Len(s)
        /\ i + 3 \in 1 .. Len(s) /\ i + 4 \in 1 .. Len(s)
    OBVIOUS
  <2>2. \A k \in 1 .. Len(s) : s[k] \in Byte
    OBVIOUS
  <2>3. Byte \subseteq Nat
    BY <1>1 DEF Byte
  <2> QED
    BY <2>1, <2>2, <2>3, Zenon
<1>3. ASSUME NEW a \in Nat, NEW b \in Nat
      PROVE  a + ByteModulus * b \in Nat
  BY <1>1, <1>3
<1>4. s[i + 3] + ByteModulus * s[i + 4] \in Nat
  BY <1>2, <1>3, Zenon
<1>5. s[i + 2] + ByteModulus * (s[i + 3] + ByteModulus * s[i + 4]) \in Nat
  BY <1>2, <1>3, <1>4, Zenon
<1> QED
  BY <1>2, <1>3, <1>5, Zenon DEF DeclaredLength

(* The decoder and a reader of the whole stream see the same length.       *)
LEMMA SameLength ==
    ASSUME TypeOK, UnreadIsTheRest, Available >= kLengthPrefixBytes
    PROVE  /\ DeclaredLength(buffer, read_offset) \in Nat
           /\ DeclaredLength(fed, consumed) = DeclaredLength(buffer, read_offset)
<1>1. /\ buffer \in Seq(Byte) /\ read_offset \in Nat
      /\ Len(buffer) \in Nat /\ read_offset + 4 <= Len(buffer)
  BY DEF TypeOK, Available, kLengthPrefixBytes
<1>2. DeclaredLength(buffer, read_offset) \in Nat
  BY <1>1, DeclaredLengthNat
<1>3. /\ buffer[read_offset + 1] = fed[consumed + 1]
      /\ buffer[read_offset + 2] = fed[consumed + 2]
      /\ buffer[read_offset + 3] = fed[consumed + 3]
      /\ buffer[read_offset + 4] = fed[consumed + 4]
  <2>1. 1 \in 1 .. Available /\ 2 \in 1 .. Available
        /\ 3 \in 1 .. Available /\ 4 \in 1 .. Available
    BY <1>1 DEF Available
  <2> QED
    BY <2>1 DEF UnreadIsTheRest
<1> QED
  BY <1>2, <1>3 DEF DeclaredLength

(* Compact keeps the bytes from offset on, in place or moved to the front, *)
(* and leaves at most half of the buffer consumed.                         *)
LEMMA CompactKeeps ==
    ASSUME buffer \in Seq(Byte), NEW offset \in 0 .. Len(buffer), Compact(offset)
    PROVE  /\ buffer' \in Seq(Byte)
           /\ read_offset' \in 0 .. Len(buffer')
           /\ Available' = Len(buffer) - offset
           /\ \A i \in 1 .. (Len(buffer) - offset) :
                 buffer'[read_offset' + i] = buffer[offset + i]
           /\ read_offset' * 2 <= Len(buffer')
<1>1. CASE offset = Len(buffer)
  <2>1. buffer' = << >> /\ read_offset' = 0
    BY <1>1 DEF Compact
  <2> QED
    BY <1>1, <2>1 DEF Available
<1>2. CASE offset # Len(buffer) /\ offset > 0 /\ offset * 2 > Len(buffer)
  <2>1. buffer' = SubSeq(buffer, offset + 1, Len(buffer)) /\ read_offset' = 0
    BY <1>2 DEF Compact
  <2>2. buffer' \in Seq(Byte) /\ Len(buffer') = Len(buffer) - offset
    BY <2>1, <1>2, SubSeqProperties
  <2>3. \A i \in 1 .. (Len(buffer) - offset) : buffer'[i] = buffer[offset + i]
    BY <2>1, <1>2, SubSeqProperties
  <2> QED
    BY <2>1, <2>2, <2>3 DEF Available
<1>3. CASE offset # Len(buffer) /\ ~(offset > 0 /\ offset * 2 > Len(buffer))
  <2>1. buffer' = buffer /\ read_offset' = offset
    BY <1>3 DEF Compact
  <2> QED
    BY <1>3, <2>1 DEF Available
<1> QED
  BY <1>1, <1>2, <1>3

(* The inductive invariant with the two properties that follow from it.    *)
Inv == TypeOK /\ UnreadIsTheRest /\ ErrorIsReal /\ BufferBounded

(* Initially nothing was fed and nothing is buffered.                      *)
LEMMA InitInv == Init => Inv
<1> SUFFICES ASSUME Init PROVE Inv
  OBVIOUS
<1>1. /\ buffer = << >> /\ read_offset = 0 /\ caller = "feeding"
      /\ fed = << >> /\ consumed = 0 /\ frames = << >>
  BY DEF Init, DecoderInit
<1>2. /\ buffer \in Seq(Byte) /\ fed \in Seq(Byte) /\ frames \in Seq(Seq(Byte))
      /\ Len(buffer) = 0 /\ Len(fed) = 0
  BY <1>1
<1>3. Available = 0
  BY <1>1, <1>2 DEF Available
<1>4. TypeOK /\ UnreadIsTheRest
  BY <1>1, <1>2, <1>3 DEF TypeOK, UnreadIsTheRest
<1>5. ErrorIsReal
  BY <1>1, <1>2 DEF ErrorIsReal, Oversized, kLengthPrefixBytes
<1>6. BufferBounded
  BY <1>1, <1>2, FramingAssumption DEF BufferBounded, kLengthPrefixBytes
<1> QED
  BY <1>4, <1>5, <1>6 DEF Inv

(* Feed appends the same bytes to the buffer and to the stream.            *)
LEMMA FeedStep ==
    ASSUME Inv, NEW data \in Seq(Byte), Feed(data)
    PROVE  Inv'
<1>1. /\ buffer \in Seq(Byte) /\ fed \in Seq(Byte)
      /\ read_offset \in 0 .. Len(buffer) /\ consumed \in 0 .. Len(fed)
      /\ frames \in Seq(Seq(Byte))
  BY DEF Inv, TypeOK
<1>2. /\ buffer' = buffer \o data /\ fed' = fed \o data
      /\ read_offset' = read_offset /\ consumed' = consumed
      /\ frames' = frames /\ caller' = "extracting"
  BY DEF Feed
<1>3. /\ buffer' \in Seq(Byte) /\ Len(buffer') = Len(buffer) + Len(data)
      /\ fed' \in Seq(Byte) /\ Len(fed') = Len(fed) + Len(data)
  BY <1>1, <1>2
<1>4. TypeOK'
  BY <1>1, <1>2, <1>3 DEF TypeOK
<1>5. UnreadIsTheRest'
  <2>1. /\ Len(buffer) - read_offset = Len(fed) - consumed
        /\ \A i \in 1 .. (Len(buffer) - read_offset) :
              buffer[read_offset + i] = fed[consumed + i]
    BY DEF Inv, UnreadIsTheRest, Available
  <2>2. Available' = (Len(fed) - consumed) + Len(data)
    <3>1. Len(buffer) \in Nat /\ Len(fed) \in Nat /\ Len(data) \in Nat
      BY <1>1
    <3>2. Available' = Len(buffer') - read_offset'
      BY DEF Available
    <3> QED
      BY <1>1, <1>2, <1>3, <2>1, <3>1, <3>2
  <2>3. ASSUME NEW i \in 1 .. Available'
        PROVE  buffer'[read_offset + i] = fed'[consumed + i]
    <3>1. CASE i <= Len(buffer) - read_offset
      <4>1. buffer'[read_offset + i] = buffer[read_offset + i]
        BY <1>1, <1>2, <2>3, <3>1
      <4>2. fed'[consumed + i] = fed[consumed + i]
        BY <1>1, <1>2, <2>1, <2>3, <3>1
      <4> QED
        BY <1>1, <2>1, <2>3, <3>1, <4>1, <4>2
    <3>2. CASE i > Len(buffer) - read_offset
      <4>1. i - (Len(buffer) - read_offset) \in 1 .. Len(data)
        BY <1>1, <2>1, <2>2, <2>3, <3>2
      <4>2. buffer'[read_offset + i] = data[i - (Len(buffer) - read_offset)]
        BY <1>1, <1>2, <2>3, <3>2, <4>1
      <4>3. fed'[consumed + i] = data[i - (Len(fed) - consumed)]
        <5>1. consumed + i \in (Len(fed) + 1) .. (Len(fed) + Len(data))
          BY <1>1, <2>1, <2>2, <2>3, <3>2
        <5>2. (consumed + i) - Len(fed) = i - (Len(fed) - consumed)
          BY <1>1, <2>2, <2>3
        <5>3. (fed \o data)[consumed + i] = data[(consumed + i) - Len(fed)]
          BY <1>1, <5>1, ConcatProperties
        <5> QED
          BY <1>2, <5>2, <5>3
      <4> QED
        BY <2>1, <4>2, <4>3
    <3> QED
      BY <1>1, <2>2, <2>3, <3>1, <3>2
  <2>4. (Len(fed) - consumed) + Len(data) = Len(fed') - consumed'
    BY <1>1, <1>2, <1>3
  <2> QED
    BY <1>2, <2>2, <2>3, <2>4, Zenon DEF UnreadIsTheRest
<1> QED
  BY <1>2, <1>4, <1>5 DEF Inv, ErrorIsReal, BufferBounded

(* The unread bytes after a step that moves the offset by n, and the count *)
(* of consumed bytes with it.                                              *)
LEMMA Advance ==
    ASSUME TypeOK, UnreadIsTheRest, NEW n \in 0 .. Available,
           Compact(read_offset + n), consumed' = consumed + n, fed' = fed
    PROVE  /\ buffer' \in Seq(Byte) /\ read_offset' \in 0 .. Len(buffer')
           /\ consumed' \in 0 .. Len(fed')
           /\ UnreadIsTheRest'
           /\ Available' = Available - n
           /\ read_offset' * 2 <= Len(buffer')
<1>1. /\ buffer \in Seq(Byte) /\ fed \in Seq(Byte)
      /\ read_offset \in 0 .. Len(buffer) /\ consumed \in 0 .. Len(fed)
  BY DEF TypeOK
<1>2. /\ Available = Len(fed) - consumed /\ Available \in Nat
      /\ \A i \in 1 .. Available : buffer[read_offset + i] = fed[consumed + i]
  BY <1>1 DEF UnreadIsTheRest, Available
<1>3. read_offset + n \in 0 .. Len(buffer)
  BY <1>1 DEF Available
<1>4. /\ buffer' \in Seq(Byte)
      /\ read_offset' \in 0 .. Len(buffer')
      /\ Available' = Len(buffer) - (read_offset + n)
      /\ \A i \in 1 .. (Len(buffer) - (read_offset + n)) :
            buffer'[read_offset' + i] = buffer[read_offset + n + i]
      /\ read_offset' * 2 <= Len(buffer')
  BY <1>1, <1>3, CompactKeeps, Zenon
<1>5. Available' = Available - n
  BY <1>1, <1>4 DEF Available
<1>6. ASSUME NEW i \in 1 .. Available'
      PROVE  buffer'[read_offset' + i] = fed[consumed + n + i]
  <2>1. n + i \in 1 .. Available /\ i \in 1 .. (Len(buffer) - (read_offset + n))
    BY <1>1, <1>2, <1>4, <1>5, <1>6
  <2>2. buffer'[read_offset' + i] = buffer[read_offset + n + i]
    BY <1>4, <2>1
  <2>3. buffer[read_offset + (n + i)] = fed[consumed + (n + i)]
    BY <1>2, <2>1
  <2>4. read_offset + n + i = read_offset + (n + i)
        /\ consumed + n + i = consumed + (n + i)
    BY <1>1, <1>2, <1>4, <1>5
  <2> QED
    BY <2>2, <2>3, <2>4
<1>7. Available' = Len(fed) - (consumed + n) /\ consumed + n \in 0 .. Len(fed)
  BY <1>1, <1>2, <1>5
<1> QED
  BY <1>4, <1>5, <1>6, <1>7 DEF UnreadIsTheRest

(* A frame is handed out: prefix and body leave the unread bytes.          *)
LEMMA ExtractStep ==
    ASSUME Inv, ExtractFrame
    PROVE  Inv'
<1> DEFINE length == DeclaredLength(buffer, read_offset)
           start == read_offset + kLengthPrefixBytes + 1
           end == read_offset + kLengthPrefixBytes + length
<1>1. /\ caller = "extracting" /\ Available >= kLengthPrefixBytes
      /\ Available >= kLengthPrefixBytes + length
      /\ frames' = Append(frames, SubSeq(buffer, start, end))
      /\ consumed' = consumed + kLengthPrefixBytes + length
      /\ Compact(end)
      /\ caller' = caller /\ fed' = fed
  BY DEF ExtractFrame
<1>2. TypeOK /\ UnreadIsTheRest
  BY DEF Inv
<1>3. length \in Nat
  BY <1>1, <1>2, SameLength
<1>4. /\ read_offset \in Nat /\ consumed \in Nat /\ Len(buffer) \in Nat
      /\ fed \in Seq(Byte) /\ frames \in Seq(Seq(Byte)) /\ buffer \in Seq(Byte)
  BY <1>2 DEF TypeOK
<1> HIDE DEF length
<1>5. kLengthPrefixBytes + length \in 0 .. Available
  BY <1>1, <1>3, <1>4 DEF kLengthPrefixBytes, Available
<1>6. /\ Compact(read_offset + (kLengthPrefixBytes + length))
      /\ consumed' = consumed + (kLengthPrefixBytes + length)
  <2>1. end = read_offset + (kLengthPrefixBytes + length)
    BY <1>3, <1>4 DEF kLengthPrefixBytes
  <2>2. consumed + kLengthPrefixBytes + length
          = consumed + (kLengthPrefixBytes + length)
    BY <1>3, <1>4 DEF kLengthPrefixBytes
  <2> QED
    BY <1>1, <2>1, <2>2
<1>7. /\ buffer' \in Seq(Byte) /\ read_offset' \in 0 .. Len(buffer')
      /\ consumed' \in 0 .. Len(fed')
      /\ UnreadIsTheRest'
  BY <1>1, <1>2, <1>5, <1>6, Advance
<1>8. SubSeq(buffer, start, end) \in Seq(Byte)
  <2>1. start \in 1 .. (Len(buffer) + 1) /\ end \in (start - 1) .. Len(buffer)
    BY <1>3, <1>4, <1>5 DEF kLengthPrefixBytes, Available
  <2> QED
    BY <1>4, <2>1, SubSeqProperties
<1>9. frames' \in Seq(Seq(Byte))
  BY <1>1, <1>4, <1>8
<1>10. TypeOK'
  BY <1>1, <1>4, <1>7, <1>9 DEF TypeOK
<1> QED
  BY <1>1, <1>7, <1>10 DEF Inv, ErrorIsReal, BufferBounded

(* The next frame is not complete: less than one frame is left unread.     *)
LEMMA NoFrameStep ==
    ASSUME Inv, NoFrame
    PROVE  Inv'
<1>1. TypeOK /\ UnreadIsTheRest
  BY DEF Inv
<1>2. /\ caller' = "feeding" /\ fed' = fed /\ consumed' = consumed
      /\ frames' = frames /\ Compact(read_offset)
  BY DEF NoFrame
<1>3. /\ read_offset \in Nat /\ consumed \in Nat /\ Len(buffer) \in Nat
      /\ read_offset <= Len(buffer) /\ Len(fed) \in Nat
      /\ fed \in Seq(Byte) /\ frames \in Seq(Seq(Byte)) /\ buffer \in Seq(Byte)
  BY <1>1 DEF TypeOK
<1>4. /\ 0 \in 0 .. Available /\ consumed' = consumed + 0
      /\ read_offset + 0 = read_offset /\ Available \in Nat
  BY <1>2, <1>3 DEF Available
<1>5. /\ buffer' \in Seq(Byte) /\ read_offset' \in 0 .. Len(buffer')
      /\ consumed' \in 0 .. Len(fed')
      /\ UnreadIsTheRest'
      /\ Available' = Available - 0
      /\ read_offset' * 2 <= Len(buffer')
  <2>1. Compact(read_offset + 0)
    BY <1>2, <1>4
  <2> QED
    BY <1>1, <1>2, <1>4, <2>1, Advance
<1>6. TypeOK'
  BY <1>2, <1>3, <1>5 DEF TypeOK
<1>7. /\ Available < kLengthPrefixBytes + kMaxFrameBytes
      /\ ~Oversized(fed, consumed)
  <2>1. Available = Len(fed) - consumed
    BY <1>1 DEF UnreadIsTheRest
  <2>2. CASE Available < kLengthPrefixBytes
    BY <1>3, <1>4, <2>1, <2>2, FramingAssumption
       DEF Oversized, kLengthPrefixBytes
  <2>3. CASE /\ Available >= kLengthPrefixBytes
             /\ DeclaredLength(buffer, read_offset) <= kMaxFrameBytes
             /\ Available < kLengthPrefixBytes + DeclaredLength(buffer, read_offset)
    <3>1. /\ DeclaredLength(buffer, read_offset) \in Nat
          /\ DeclaredLength(fed, consumed) = DeclaredLength(buffer, read_offset)
      BY <1>1, <2>3, SameLength
    <3> QED
      BY <1>4, <2>3, <3>1, FramingAssumption DEF Oversized, kLengthPrefixBytes
  <2> QED
    BY <2>2, <2>3 DEF NoFrame
<1>8. ErrorIsReal'
  <2>1. ~Oversized(fed', consumed')
    BY <1>2, <1>7
  <2> QED
    BY <1>2, <2>1 DEF ErrorIsReal
<1>9. BufferBounded'
  <2>1. Len(buffer') - read_offset' = Available
    BY <1>4, <1>5 DEF Available
  <2>2. Len(buffer') < 2 * (kLengthPrefixBytes + kMaxFrameBytes)
    BY <1>4, <1>5, <1>7, <2>1, FramingAssumption DEF kLengthPrefixBytes
  <2> QED
    BY <1>5, <2>2 DEF BufferBounded
<1> QED
  BY <1>5, <1>6, <1>8, <1>9 DEF Inv

(* The decoder gives up only on a length that the stream really declares.  *)
LEMMA ProtocolErrorStep ==
    ASSUME Inv, ProtocolError
    PROVE  Inv'
<1>1. TypeOK /\ UnreadIsTheRest
  BY DEF Inv
<1>2. /\ caller' = "closed" /\ buffer' = buffer /\ read_offset' = read_offset
      /\ fed' = fed /\ consumed' = consumed /\ frames' = frames
      /\ Available >= kLengthPrefixBytes
      /\ DeclaredLength(buffer, read_offset) > kMaxFrameBytes
  BY DEF ProtocolError, dvars
<1>3. TypeOK'
  BY <1>1, <1>2 DEF TypeOK
<1>4. UnreadIsTheRest'
  BY <1>1, <1>2 DEF UnreadIsTheRest, Available
<1>5. Oversized(fed, consumed)
  BY <1>1, <1>2, SameLength DEF Oversized, UnreadIsTheRest
<1>6. Oversized(fed', consumed')
  BY <1>2, <1>5
<1> QED
  BY <1>2, <1>3, <1>4, <1>6 DEF Inv, ErrorIsReal, BufferBounded

-----------------------------------------------------------------------------
(* Every state satisfies Inv.                                              *)
LEMMA Invariance == Spec => []Inv
<1>1. Inv /\ [Next]_vars => Inv'
  <2> SUFFICES ASSUME Inv, [Next]_vars PROVE Inv'
    OBVIOUS
  <2>1. CASE ExtractFrame
    BY <2>1, ExtractStep
  <2>2. CASE NoFrame
    BY <2>2, NoFrameStep
  <2>3. CASE ProtocolError
    BY <2>3, ProtocolErrorStep
  <2>4. ASSUME NEW data \in Chunks, Feed(data) PROVE Inv'
    BY <2>4, FeedStep DEF Chunks
  <2>5. CASE UNCHANGED vars
    BY <2>5 DEF vars, Inv, TypeOK, UnreadIsTheRest, ErrorIsReal, BufferBounded,
                Available, Oversized
  <2> QED
    BY <2>1, <2>2, <2>3, <2>4, <2>5 DEF Next, TryExtractFrame
<1> QED
  BY InitInv, <1>1, PTL DEF Spec

(* However recv cuts the stream and whenever Compact moves the buffer, the *)
(* unread bytes of the decoder are the bytes fed and not yet handed out.   *)
THEOREM UnreadBytesKept == Spec => [](TypeOK /\ UnreadIsTheRest)
<1>1. Inv => TypeOK /\ UnreadIsTheRest
  BY DEF Inv
<1> QED
  BY Invariance, <1>1, PTL

(* protocol_error is set exactly when the length at the first byte not     *)
(* handed out is above kMaxFrameBytes.                                     *)
THEOREM ErrorsAreReal == Spec => []ErrorIsReal
<1>1. Inv => ErrorIsReal
  BY DEF Inv
<1> QED
  BY Invariance, <1>1, PTL

(* Between two calls of recv the buffer holds less than two frames of the  *)
(* maximal size, for any length of the stream.                             *)
THEOREM BufferIsBounded == Spec => []BufferBounded
<1>1. Inv => BufferBounded
  BY DEF Inv
<1> QED
  BY Invariance, <1>1, PTL
=============================================================================
