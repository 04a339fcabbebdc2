------------------------------- MODULE Framing -------------------------------
(***************************************************************************)
(* The length-prefixed frame of the wire and of the journal file: four     *)
(* bytes of length, least significant first, and as many bytes of body.    *)
(* A byte is a number below ByteModulus, which is 256 in the code.         *)
(***************************************************************************)
EXTENDS Integers, Sequences

CONSTANTS
    ByteModulus,     \* 256 in the code
    kMaxFrameBytes   \* 64 * 1024 in the code

ASSUME FramingAssumption ==
    /\ ByteModulus \in Nat \ {0, 1}
    /\ kMaxFrameBytes \in Nat
    /\ kMaxFrameBytes < ByteModulus * ByteModulus * ByteModulus

kLengthPrefixBytes == 4

Byte == 0 .. (ByteModulus - 1)

(* The length that the four bytes from position i + 1 declare.             *)
DeclaredLength(s, i) ==
    s[i + 1] + ByteModulus * (s[i + 2] + ByteModulus * (s[i + 3]
                 + ByteModulus * s[i + 4]))

(* static_cast<std::uint8_t>(length >> (8 * i)), i = 0 .. 3.               *)
LengthPrefix(n) ==
    << n % ByteModulus,
       (n \div ByteModulus) % ByteModulus,
       (n \div (ByteModulus * ByteModulus)) % ByteModulus,
       (n \div (ByteModulus * ByteModulus * ByteModulus)) % ByteModulus >>

FrameMessage(body) == LengthPrefix(Len(body)) \o body

(* What a stream holds after its first i bytes, read in one piece.         *)
Incomplete(s, i) ==
    \/ Len(s) - i < kLengthPrefixBytes
    \/ Len(s) - i < kLengthPrefixBytes + DeclaredLength(s, i)

Oversized(s, i) ==
    Len(s) - i >= kLengthPrefixBytes /\ DeclaredLength(s, i) > kMaxFrameBytes

(* The bodies of the frames of a stream from byte i + 1 on, up to the      *)
(* first incomplete or oversized one: the reference the decoder is         *)
(* compared with.                                                          *)
FramesOf(s) ==
    LET from[i \in 0 .. Len(s)] ==
            IF Incomplete(s, i) \/ Oversized(s, i) THEN << >>
            ELSE LET end == i + kLengthPrefixBytes + DeclaredLength(s, i)
                 IN  <<SubSeq(s, i + kLengthPrefixBytes + 1, end)>> \o from[end]
    IN  from[0]
=============================================================================
