-------------------------------- MODULE MtcProof --------------------------------
(***************************************************************************)
(* MTCProof, the signature value of a certificate, and its TLS encoding:   *)
(* mtc/core/types.py, mtc/certificate/proof_codec.py and the part of       *)
(* mtc/encoding/tls.py they use.                                           *)
(*                                                                         *)
(* A proof is [start, end, nodes, signatures]; a signature is [id, value]. *)
(* Decoders return sets of at most one value, as in Der.                   *)
(*                                                                         *)
(* "Slip:" marks a plausible mistake in the definition after it, used only *)
(* to show that a property notices.                                        *)
(***************************************************************************)
EXTENDS Der

CONSTANTS
  UintOctets,  \* octets of a uint64: 8 in the code, fewer in the checks
  HashSize     \* HashAlgorithm.digest_size

ASSUME WidthsArePositive == UintOctets \in Nat \ {0} /\ HashSize \in Nat \ {0}

MaxUint == Pow2[8 * UintOctets] - 1

-----------------------------------------------------------------------------
(* The TLS presentation language *)

\* Writer.length_prefixed, for values that fit.
Vector(value, octets) == Uint(Len(value), octets) \o value

Fits(value, octets) == Len(value) < Pow2[8 * octets]

\* Reader.read at a position: [value, next].
Read(data, at, count) ==
  IF at + count - 1 > Len(data) THEN {}
  ELSE {[value |-> SubSeq(data, at, at + count - 1), next |-> at + count]}

\* Reader.length_prefixed
ReadVector(data, at, octets) ==
  UNION {Read(data, length.next, ValueOf(length.value)) : length \in Read(data, at, octets)}

-----------------------------------------------------------------------------
(* Proofs *)

\* TrustAnchorID.__post_init__
IsTrustAnchorID(id) == Len(id) \in 1 .. 255

\* MTCSignature.to_tls
SignatureToTls(s) == Vector(s.id, 1) \o Vector(s.value, 2)

\* MTCSignature.from_tls at a position.
SignatureAt(data, at) ==
  UNION {{[id |-> id.value, value |-> value.value, next |-> value.next] :
            value \in ReadVector(data, id.next, 2)} :
           id \in {i \in ReadVector(data, at, 1) : IsTrustAnchorID(i.value)}}

\* The signatures until the end of the vector.
SignaturesIn(data) ==
  {[k \in DOMAIN read |-> [id |-> read[k].id, value |-> read[k].value]] :
     read \in Iterated([at \in 1 .. Len(data) |-> SignatureAt(data, at)], Len(data))}

\* MTCProof.to_tls
ProofToTls(p) ==
  Uint(p.start, UintOctets) \o Uint(p.end, UintOctets)
    \o Vector(FlattenSeq(p.nodes), 2)
    \o Vector(FlattenSeq([k \in DOMAIN p.signatures |-> SignatureToTls(p.signatures[k])]), 2)

\* The proof nodes of a vector.
NodesOf(octets) ==
  [k \in 1 .. Len(octets) \div HashSize |-> SubSeq(octets, (k - 1) * HashSize + 1, k * HashSize)]

\* Slip: what follows the last complete node, or the whole proof, is ignored.
ProofFromPrefix(data) ==
  LET bounds == 2 * UintOctets
  IN  UNION {UNION {{[start |-> ValueOf(SubSeq(data, 1, UintOctets)),
                      end |-> ValueOf(SubSeq(data, UintOctets + 1, bounds)),
                      nodes |-> NodesOf(nodes.value),
                      signatures |-> signatures] :
                       signatures \in SignaturesIn(vector.value)} :
                      vector \in ReadVector(data, nodes.next, 2)} :
               nodes \in ReadVector(data, bounds + 1, 2)}

\* MTCProof.from_tls and __post_init__
ProofFromTls(data) ==
  LET bounds == 2 * UintOctets
      parsed == UNION {UNION {{[start |-> ValueOf(SubSeq(data, 1, UintOctets)),
                                end |-> ValueOf(SubSeq(data, UintOctets + 1, bounds)),
                                nodes |-> NodesOf(nodes.value),
                                signatures |-> signatures] :
                                 signatures \in SignaturesIn(vector.value)} :
                                vector \in {v \in ReadVector(data, nodes.next, 2) :
                                              v.next = Len(data) + 1}} :
                         nodes \in {n \in ReadVector(data, bounds + 1, 2) :
                                      Len(n.value) % HashSize = 0}}
  IN  {p \in parsed : p.start < p.end}

\* validate_proof
ValidProof(p, index) ==
  /\ IsValidSubtree(p.start, p.end)
  /\ index \in 1 .. MaxUint
  /\ p.start <= index /\ index < p.end
  /\ Fits(FlattenSeq(p.nodes), 2)

\* decode_proof
DecodeProof(data, index) == {p \in ProofFromTls(data) : ValidProof(p, index)}
=============================================================================
