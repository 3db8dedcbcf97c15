------------------------------ MODULE Certificate ------------------------------
(***************************************************************************)
(* Merkle Tree certificates and their log entries:                         *)
(* mtc/certificate/x509_codec.py and mtc/certificate/entry_mapping.py.     *)
(*                                                                         *)
(* A certificate is [tbs, proof]; a TBS certificate keeps its octets and   *)
(* the members of its SEQUENCE.  Decoders return sets of at most one       *)
(* value, as in Der.                                                       *)
(*                                                                         *)
(* "Slip:" marks a plausible mistake in the definition after it, used only *)
(* to show that a property notices.                                        *)
(***************************************************************************)
EXTENDS LogEntry

CONSTANTS
  SpkiHash(_)  \* compute_spki_hash, an octet string of HashSize octets

MtcAlgorithm ==
  EncodeSequence(<<EncodeOid(
    <<<<43>>, <<6>>, <<1>>, <<4>>, <<1>>, <<2, 90, 75>>, <<47>>, <<0>>>>)>>)

-----------------------------------------------------------------------------
(* Strict parsing *)

\* validate_spki
ValidSpki(data) ==
  \E parts \in Fields(data) :
    /\ Len(parts) = 2
    /\ parts[2].tag = TagBitString
    /\ \E algorithm \in Fields(parts[1].der) :
         Len(algorithm) \in 1 .. 2 /\ algorithm[1].tag = TagOid

ValidExtension(extension) ==
  \E fields \in Fields(extension) :
    /\ Len(fields) \in 2 .. 3
    /\ fields[1].tag = TagOid
    /\ Len(fields) = 3 => fields[2].der = EncodeTrue
    /\ fields[Len(fields)].tag = TagOctetString

ExtensionOid(extension) == {fields[1].der : fields \in Fields(extension)}

\* _validate_extensions: at least one, and every OID once.
ValidExtensions(field) ==
  \E extensions \in Fields(field.content) :
    /\ extensions # << >>
    /\ \A k \in DOMAIN extensions : ValidExtension(extensions[k].der)
    /\ \A j, k \in DOMAIN extensions :
         ExtensionOid(extensions[j].der) = ExtensionOid(extensions[k].der) => j = k

\* A positive uint64; the content of an INTEGER without redundant octets.
IsIndex(content) ==
  /\ content[1] < 128
  /\ content # <<0>>
  /\ Len(content) <= UintOctets \/ (Len(content) = UintOctets + 1 /\ content[1] = 0)

EncodeIndex(n) == EncodeInteger(<<0>> \o BigEndian(n))

Order(tag) == CASE tag = Implicit(1) -> 1 [] tag = Implicit(2) -> 2 [] tag = Explicit(3) -> 3 [] OTHER -> 0

\* The optional fields: known, each at most once, in order, and allowed by the
\* version.
ValidOptionalFields(optional, version) ==
  /\ \A k \in DOMAIN optional : Order(optional[k].tag) # 0
  /\ \A j, k \in DOMAIN optional : j < k => Order(optional[j].tag) < Order(optional[k].tag)
  /\ \A k \in DOMAIN optional :
       IF optional[k].tag = Explicit(3)
       THEN version = V3 /\ ValidExtensions(optional[k])
       ELSE version # V1 /\ Bits(optional[k].content) # {}

\* An explicit version is v2 or v3.
ExplicitVersions(field) ==
  {v.content : v \in {t \in WholeTlv(field.content, TagInteger) : t.content \in {<<1>>, <<2>>}}}

Offset(fields) == IF HasVersion(fields) THEN 1 ELSE 0

\* The checks of TBSCertificate on its fields.
IsTbs(fields, version) ==
  LET o == Offset(fields)
  IN  /\ Len(fields) >= o + 6
      /\ fields[o + 1].tag = TagInteger /\ IsIndex(fields[o + 1].content)
      /\ fields[o + 2].der = MtcAlgorithm
      /\ IsName(fields[o + 3].der)
      /\ DecodeValidity(fields[o + 4].der) # {}
      /\ IsName(fields[o + 5].der)
      /\ ValidSpki(fields[o + 6].der)
      /\ ValidOptionalFields(SubSeq(fields, o + 7, Len(fields)), version)

\* TBSCertificate
TbsCertificate(data) ==
  {[der |-> data, fields |-> fields] :
     fields \in {f \in Fields(data) :
                   \E version \in IF HasVersion(f) THEN ExplicitVersions(f[1]) ELSE {V1} : IsTbs(f, version)}}

SerialNumber(tbs) == ValueOf(tbs.fields[Offset(tbs.fields) + 1].content)
Spki(tbs) == tbs.fields[Offset(tbs.fields) + 6].der

\* MTCCertificate.from_der
DecodeCertificate(data) ==
  LET signed(fields, tbs) ==
        UNION {{[tbs |-> tbs, proof |-> p] : p \in DecodeProof(b.bits, SerialNumber(tbs))} :
                 b \in {x \in Bits(fields[3].content) : x.unused = 0}}
      enveloped == {f \in Fields(data) :
                      Len(f) = 3 /\ f[2].der = MtcAlgorithm /\ f[3].tag = TagBitString}
  IN  UNION {UNION {signed(fields, tbs) : tbs \in TbsCertificate(fields[1].der)} : fields \in enveloped}

\* MTCCertificate.to_der
EncodeCertificate(c) ==
  EncodeSequence(<<c.tbs.der, MtcAlgorithm, EncodeBitString(ProofToTls(c.proof))>>)

-----------------------------------------------------------------------------
(* The log entry of a certificate and the certificate of a log entry *)

Ders(fields, first, last) == [k \in 1 .. last - first + 1 |-> fields[first + k - 1].der]

\* to_log_entry: serial and algorithm are dropped, the key is hashed.
ToLogEntry(tbs) ==
  LET fields == tbs.fields
      o == Offset(fields)
  IN  IF fields[o + 3].der # LogName THEN {}
      ELSE {[type |-> TbsCertEntry,
             data |-> FlattenSeq(Ders(fields, 1, o) \o Ders(fields, o + 3, o + 5)
                                   \o <<EncodeTlv(TagOctetString, SpkiHash(Spki(tbs)))>>
                                   \o Ders(fields, o + 7, Len(fields)))]}

\* tbs_cert_entry_for: the entry the CA logs for a request.
TbsCertEntryFor(spki, request) ==
  LET entry == [version |-> request.version, issuer |-> LogName, validity |-> request.validity,
                subject |-> request.subject, spkiHash |-> SpkiHash(spki),
                issuerId |-> {}, subjectId |-> {}, extensions |-> request.extensions \ {<< >>}]
  IN  IF ValidEntry(entry) THEN {TbsCert(entry)} ELSE {}

\* The TBS certificate with the fields of an entry.
Rebuilt(fields, index, spki) ==
  LET o == Offset(fields)
  IN  IF \/ Len(fields) < o + 4
         \/ fields[o + 4].tag # TagOctetString
         \/ fields[o + 4].content # SpkiHash(spki)
      THEN {}
      ELSE TbsCertificate(EncodeSequence(
             Ders(fields, 1, o) \o <<EncodeIndex(index), MtcAlgorithm>>
               \o Ders(fields, o + 1, o + 3) \o <<spki>>
               \o Ders(fields, o + 5, Len(fields))))

\* from_log_entry
FromLogEntry(entry, index, spki) ==
  LET payloads == IF /\ entry.type = TbsCertEntry
                     /\ index \in 1 .. MaxUint
                     /\ ValidSpki(spki)
                     /\ \E parsed \in ParseEntry(entry.data) : ValidEntry(parsed)
                  THEN Fields(EncodeSequence(<<entry.data>>)) ELSE {}
  IN  {tbs \in UNION {Rebuilt(fields, index, spki) : fields \in payloads} : ToLogEntry(tbs) = {entry}}
=============================================================================
