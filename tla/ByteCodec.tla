------------------------------ MODULE ByteCodec ------------------------------
(***************************************************************************)
(* How byte_array.cpp turns typed values into bytes and back: fixed-width  *)
(* integers in either byte order, 7-bit groups, zigzag, and the prefixes   *)
(* of strings.  The widths are parameters.                                 *)
(***************************************************************************)
EXTENDS Integers, Sequences, SequencesExt

CONSTANTS GroupBits,  \* 7: the bits of a varint in one byte
          Width,      \* kind of fixed integer (F8, F16, ...) -> bytes
          WordBits    \* kind of varint (V32, V64) -> bits

ASSUME CodecAssumption ==
  /\ GroupBits \in Nat \ {0}
  /\ \A k \in DOMAIN Width : Width[k] \in Nat \ {0}
  /\ \A k \in DOMAIN WordBits : WordBits[k] \in Nat \ {0}

\* b to the power n, as a function over the exponents.
Power(b, n) ==
  LET to[i \in 0 .. n] == IF i = 0 THEN 1 ELSE b * to[i - 1]
  IN  to[n]

\* The number with the digits d in a radix, low digits first.
Value(d, radix) ==
  LET upto[i \in 0 .. Len(d)] ==
        IF i = 0 THEN 0 ELSE upto[i - 1] + d[i] * Power(radix, i - 1)
  IN  upto[Len(d)]

Group == Power(2, GroupBits)
Radix == 2 * Group      \* 2^8
Word(k) == Power(2, WordBits[k])
Byte == 0 .. Radix - 1

-----------------------------------------------------------------------------
\* write_F_xxx and read_F_xxx: the bytes of the host (little end first),
\* reversed by byteswap when m_endian says the other order.
FixedModulus(k) == Power(Radix, Width[k])

LittleDigits(k, v) == [i \in 1 .. Width[k] |-> (v \div Power(Radix, i - 1)) % Radix]

InOrder(b, little) == IF little THEN b ELSE Reverse(b)

EncodeFixed(k, v, little) == InOrder(LittleDigits(k, v % FixedModulus(k)), little)

DecodeFixed(k, b, little) == Value(InOrder(b, little), Radix)

-----------------------------------------------------------------------------
\* Fault: a value of exactly one group more is written in one byte.
LastGroupLate(v) == v <= Group

\* The loop of write_uint32 and write_uint64 ends where nothing is left above
\* the group.
LastGroup(v) == v < Group

\* Low groups first, all but the last flagged.
Varint[v \in Nat] ==
  IF LastGroup(v) THEN <<v>>
                  ELSE <<(v % Group) + Group>> \o Varint[v \div Group]

\* Iterations of "for(int i = 0; i < 32; i += 7)".
Groups(k) == (WordBits[k] + GroupBits - 1) \div GroupBits

\* The bytes read_uint32/64 would consume from s, if s had enough of them: up
\* to a byte without the flag, at most Groups(k).
VarintLength(k, s) ==
  LET last == {i \in DOMAIN s : s[i] < Group} \cup {Groups(k)}
  IN  CHOOSE n \in last : \A m \in last : n <= m

\* What the loop assembles; bits shifted out of the word are lost.
DecodeVarint(k, b) == Value([i \in 1 .. Len(b) |-> b[i] % Group], Group) % Word(k)

-----------------------------------------------------------------------------
\* EncodeZigzag, DecodeZigzag for a word of W values (-W/2 .. W/2 - 1).
EncodeZigzag(W, v) == IF v < 0 THEN (2 * (-v) - 1) % W ELSE (2 * v) % W
DecodeZigzag(v) == IF v % 2 = 0 THEN v \div 2 ELSE -(v \div 2) - 1

-----------------------------------------------------------------------------
\* A field is [kind, value]; kind "Z.." is a zigzag varint, "S.." a string
\* whose length is written as the fixed integer or varint Prefix[kind].
VarintOf == [V32 |-> "V32", V64 |-> "V64", Z32 |-> "V32", Z64 |-> "V64"]
Prefix   == [S16 |-> "F16", S32 |-> "F32", S64 |-> "F64", SV |-> "V64"]

IsString(k) == k \in DOMAIN Prefix
IsZigzag(k) == k \in {"Z32", "Z64"}
IsNumber(k) ==
  \/ k \in DOMAIN Width
  \/ k \in DOMAIN VarintOf /\ VarintOf[k] \in DOMAIN WordBits

\* The values of the type of a number.
NumberRange(k) ==
  IF k \in DOMAIN Width THEN 0 .. FixedModulus(k) - 1
  ELSE LET w == Word(VarintOf[k])
       IN  IF IsZigzag(k) THEN -(w \div 2) .. (w \div 2) - 1 ELSE 0 .. w - 1

EncodeNumber(k, v, little) ==
  IF k \in DOMAIN Width THEN EncodeFixed(k, v, little)
  ELSE Varint[IF IsZigzag(k) THEN EncodeZigzag(Word(VarintOf[k]), v) ELSE v]

\* write_string_xxx: the size, cut to the prefix's width, then all the bytes.
Encode(k, v, little) ==
  IF IsString(k) THEN EncodeNumber(Prefix[k], Len(v), little) \o v
                 ELSE EncodeNumber(k, v, little)

NumberLength(k, s) ==
  IF k \in DOMAIN Width THEN Width[k] ELSE VarintLength(VarintOf[k], s)

DecodeNumber(k, b, little) ==
  IF k \in DOMAIN Width THEN DecodeFixed(k, b, little)
  ELSE LET v == DecodeVarint(VarintOf[k], b)
       IN  IF IsZigzag(k) THEN DecodeZigzag(v) ELSE v

\* What reading a field of kind k from the bytes s comes to: how many bytes go,
\* whether out_of_range is thrown (after the bytes that could be read are
\* consumed), and the value.  A fixed integer is one read and consumes nothing
\* when it fails; a varint goes byte by byte, a string prefix first.
Decode(k, s, little) ==
  LET p == IF IsString(k) THEN Prefix[k] ELSE k
      n == NumberLength(p, s)
      number == DecodeNumber(p, SubSeq(s, 1, n), little)
  IN  IF n > Len(s)
      THEN [used |-> IF p \in DOMAIN Width THEN 0 ELSE Len(s),
            thrown |-> TRUE, value |-> <<>>]
      ELSE IF ~IsString(k)
      THEN [used |-> n, thrown |-> FALSE, value |-> number]
      ELSE IF n + number > Len(s)
      THEN [used |-> n, thrown |-> TRUE, value |-> <<>>]
      ELSE [used |-> n + number, thrown |-> FALSE,
            value |-> SubSeq(s, n + 1, n + number)]
=============================================================================
