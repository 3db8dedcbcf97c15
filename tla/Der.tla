---------------------------------- MODULE Der ----------------------------------
(***************************************************************************)
(* DER as the project reads and writes it: mtc/encoding/der.py, and the    *)
(* strict check that mtc/certificate/x509_codec.py puts on top of its      *)
(* lenient reader.                                                         *)
(*                                                                         *)
(* Octet strings are sequences over 0 .. 255.  What a decoder returns is a *)
(* set of at most one value, empty where the code raises DecodeError.      *)
(* Numbers keep the digits they are written with, for they may have any    *)
(* length: an INTEGER is its two's complement octets, an OID arc its base  *)
(* 128 digits without leading zeros.  The first two arcs stay joined; the  *)
(* code splits and joins them again without loss.                          *)
(*                                                                         *)
(* "Slip:" marks a plausible mistake in the definition after it, used only *)
(* to show that a property notices.                                        *)
(***************************************************************************)
EXTENDS CoverInterval, SequencesExt

TagBoolean == 1
TagInteger == 2
TagBitString == 3
TagOctetString == 4
TagNull == 5
TagOid == 6
TagUtf8String == 12
TagUtcTime == 23
TagGeneralizedTime == 24
TagSequence == 48
TagSet == 49

\* Context tags, [n] IMPLICIT primitive and [n] EXPLICIT.
Implicit(n) == 128 + n
Explicit(n) == 160 + n

Octet == 0 .. 255

\* int.to_bytes: the number in this many octets, and back.
Uint(n, octets) == [k \in 1 .. octets |-> (n \div Pow2[8 * (octets - k)]) % 256]

ValueOf(octets) ==
  LET value[k \in 0 .. Len(octets)] == IF k = 0 THEN 0 ELSE 256 * value[k - 1] + octets[k]
  IN  value[Len(octets)]

\* The number in as few octets as hold it.
BigEndian(n) ==
  LET octets[m \in 0 .. n] == IF m < 256 THEN <<m>> ELSE Append(octets[m \div 256], m % 256)
  IN  octets[n]

-----------------------------------------------------------------------------
(* Encoding *)

EncodeLength(n) ==
  IF n < 128 THEN <<n>> ELSE <<128 + Len(BigEndian(n))>> \o BigEndian(n)

EncodeTlv(tag, content) == <<tag>> \o EncodeLength(Len(content)) \o content

EncodeSequence(items) == EncodeTlv(TagSequence, FlattenSeq(items))

\* encode_integer strips redundant leading octets.
Redundant(value, k) ==
  /\ k < Len(value)
  /\ (value[k] = 0 /\ value[k + 1] < 128) \/ (value[k] = 255 /\ value[k + 1] >= 128)

Minimal(value) ==
  LET first == CHOOSE k \in DOMAIN value :
                 ~Redundant(value, k) /\ \A j \in 1 .. k - 1 : Redundant(value, j)
  IN  SubSeq(value, first, Len(value))

EncodeInteger(value) == EncodeTlv(TagInteger, Minimal(value))

EncodeOid(arcs) ==
  EncodeTlv(TagOid,
    FlattenSeq([k \in DOMAIN arcs |->
      [j \in DOMAIN arcs[k] |-> IF j < Len(arcs[k]) THEN 128 + arcs[k][j] ELSE arcs[k][j]]]))

EncodeBitString(data) == EncodeTlv(TagBitString, <<0>> \o data)

EncodeTrue == EncodeTlv(TagBoolean, <<255>>)

-----------------------------------------------------------------------------
(* Decoding *)

\* A length of up to four octets; one that exceeds the limit is not counted on.
LengthOf(octets, limit) ==
  LET read[k \in 0 .. Len(octets)] ==
        IF k = 0 THEN 0
        ELSE IF read[k - 1] > limit THEN read[k - 1] ELSE 256 * read[k - 1] + octets[k]
  IN  read[Len(octets)]

\* read_tlv at position at: [tag, content, der, next].
ReadTlv(data, at) ==
  LET first == data[at + 1]
      octets == IF first < 128 THEN 0 ELSE first - 128
      start == at + 2 + octets
      length == IF first < 128 THEN first ELSE LengthOf(SubSeq(data, at + 2, start - 1), Len(data))
  IN  IF \/ at + 1 > Len(data)
         \/ data[at] % 32 = 31
         \/ first >= 128 /\ octets \notin 1 .. 4
         \/ start - 1 > Len(data)
         \/ start + length - 1 > Len(data)
      THEN {}
      ELSE {[tag     |-> data[at],
             content |-> SubSeq(data, start, start + length - 1),
             der     |-> SubSeq(data, at, start + length - 1),
             next    |-> start + length]}

\* All that is read one after the other, up to the end of n octets: what is read
\* at a position says where the next position is.
Iterated(read, n) ==
  LET members[at \in 1 .. n + 1] ==
        IF at > n THEN {<< >>}
        ELSE UNION {{<<t>> \o rest : rest \in members[t.next]} : t \in read[at]}
  IN  members[1]

\* iter_sequence
IterSequence(content) ==
  Iterated([at \in 1 .. Len(content) |-> ReadTlv(content, at)], Len(content))

\* The one TLV that data is, with the given tag.
WholeTlv(data, tag) == {t \in ReadTlv(data, 1) : t.tag = tag /\ t.next = Len(data) + 1}

\* decode_oid: a leading zero digit is accepted and lost.  An arc too long for
\* str() (recent Pythons stop at 4300 decimal digits) is refused there, not here.
DecodeOid(content) ==
  LET octet(a, o) ==
        LET digits == IF a.open = <<0>> THEN <<o % 128>> ELSE Append(a.open, o % 128)
        IN  IF o < 128 THEN [arcs |-> Append(a.arcs, digits), open |-> << >>]
                       ELSE [arcs |-> a.arcs, open |-> digits]
      read == FoldLeft(octet, [arcs |-> << >>, open |-> << >>], content)
  IN  IF read.open # << >> \/ read.arcs = << >> THEN {} ELSE {read.arcs}

\* decode_bit_string: [bits, unused].
DecodeBitString(content) ==
  IF content = << >> \/ content[1] > 7 THEN {}
  ELSE {[bits |-> Tail(content), unused |-> content[1]]}

-----------------------------------------------------------------------------
(* The strict check *)

\* _bits: unused bits need an octet and are zero.
Bits(content) ==
  {b \in DecodeBitString(content) :
     b.unused # 0 => b.bits # << >> /\ Last(b.bits) % Pow2[b.unused] = 0}

Precedes(a, b) ==
  \/ IsPrefix(a, b)
  \/ \E k \in DOMAIN a \cap DOMAIN b :
       SubSeq(a, 1, k - 1) = SubSeq(b, 1, k - 1) /\ a[k] < b[k]

\* Slip: any INTEGER will do.
PrimitiveButInteger(t) ==
  /\ t.tag = TagInteger => t.content # << >>
  /\ t.tag = TagBoolean => t.content \in {<<0>>, <<255>>}
  /\ t.tag = TagNull => t.content = << >>
  /\ t.tag = TagOid => \E arcs \in DecodeOid(t.content) : EncodeOid(arcs) = t.der
  /\ t.tag = TagBitString => Bits(t.content) # {}

\* The checks of _canonical on the content of one value.
PrimitiveIsCanonical(t) ==
  /\ t.tag = TagInteger => t.content # << >> /\ EncodeInteger(t.content) = t.der
  /\ t.tag = TagBoolean => t.content \in {<<0>>, <<255>>}
  /\ t.tag = TagNull => t.content = << >>
  /\ t.tag = TagOid => \E arcs \in DecodeOid(t.content) : EncodeOid(arcs) = t.der
  /\ t.tag = TagBitString => Bits(t.content) # {}

MaxDepth == 32

\* _canonical, of a value at a depth.
CanonicalAt[nested \in Seq(Octet) \X (0 .. MaxDepth + 1)] ==
  LET d == nested[1]
      depth == nested[2]
  IN  /\ depth <= MaxDepth
      /\ \E t \in ReadTlv(d, 1) :
           /\ EncodeTlv(t.tag, t.content) = d
           /\ PrimitiveIsCanonical(t)
           /\ (t.tag \div 32) % 2 = 1 =>
                \E members \in IterSequence(t.content) :
                  /\ \A k \in DOMAIN members : CanonicalAt[<<members[k].der, depth + 1>>]
                  /\ t.tag = TagSet => IsSorted([k \in DOMAIN members |-> members[k].der], Precedes)

\* _fields: the members of a canonical SEQUENCE.
Fields(data) ==
  IF CanonicalAt[<<data, 0>>]
  THEN UNION {IterSequence(t.content) : t \in WholeTlv(data, TagSequence)}
  ELSE {}
=============================================================================
