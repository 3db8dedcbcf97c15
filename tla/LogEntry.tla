-------------------------------- MODULE LogEntry --------------------------------
(***************************************************************************)
(* Log entries: mtc/log/entry.py over the X.509 values of                  *)
(* mtc/encoding/asn1.py and the issuer name of mtc/log/log_id.py.          *)
(*                                                                         *)
(* A tbs_cert_entry carries the content octets of a                        *)
(* TBSCertificateLogEntry; parsing gives a record of its fields.  Names    *)
(* and extensions keep their octets; validity and unique IDs do not, they  *)
(* are encoded anew.  Decoders return sets of at most one value, as in     *)
(* Der.                                                                    *)
(*                                                                         *)
(* "Slip:" marks a plausible mistake in the definition after it, used only *)
(* to show that a property notices.                                        *)
(***************************************************************************)
EXTENDS MtcProof

CONSTANTS
  LogText,     \* the ASCII representation of the log's ID
  PadsYears    \* strftime("%Y") writes every year with four digits, which the
               \* platform's C library decides

ASSUME LogTextIsAscii == LogText \in Seq(0 .. 127)
ASSUME PaddingIsGiven == PadsYears \in BOOLEAN

-----------------------------------------------------------------------------
(* Names *)

TrustAnchorAttribute == <<<<43>>, <<6>>, <<1>>, <<4>>, <<1>>, <<2, 90, 75>>, <<47>>, <<1>>>>

\* TrustAnchorID.distinguished_name: one attribute.
LogName ==
  EncodeSequence(<<EncodeTlv(TagSet,
    EncodeSequence(<<EncodeOid(TrustAnchorAttribute), EncodeTlv(TagUtf8String, LogText)>>))>>)

\* AttributeTypeAndValue.from_der
IsAttribute(data) ==
  \E t \in WholeTlv(data, TagSequence) : \E members \in IterSequence(t.content) :
    /\ Len(members) = 2
    /\ members[1].tag = TagOid
    /\ DecodeOid(members[1].content) # {}

\* RelativeDistinguishedName.from_der
IsRdn(data) ==
  \E t \in WholeTlv(data, TagSet) : \E members \in IterSequence(t.content) :
    /\ members # << >>
    /\ \A k \in DOMAIN members : IsAttribute(members[k].der)

\* Name.from_der
IsName(data) ==
  \E t \in WholeTlv(data, TagSequence) : \E members \in IterSequence(t.content) :
    \A k \in DOMAIN members : IsRdn(members[k].der)

-----------------------------------------------------------------------------
(* Validity *)

Digits == 48 .. 57
Zulu == 90

TwoDigits(text, k) == 10 * (text[k] - 48) + (text[k + 1] - 48)

Years(text) == 100 * TwoDigits(text, 1) + TwoDigits(text, 3)

DaysIn(year, month) ==
  CASE month = 2 -> IF year % 4 = 0 /\ (year % 100 # 0 \/ year % 400 = 0) THEN 29 ELSE 28
    [] month \in {4, 6, 9, 11} -> 30
    [] OTHER -> 31

\* A datetime, from the fourteen digits of its year, month, day and time.
IsDatetime(text) ==
  /\ Years(text) >= 1
  /\ TwoDigits(text, 5) \in 1 .. 12
  /\ TwoDigits(text, 7) \in 1 .. DaysIn(Years(text), TwoDigits(text, 5))
  /\ TwoDigits(text, 9) < 24
  /\ TwoDigits(text, 11) < 60
  /\ TwoDigits(text, 13) < 60

\* decode_time: the fourteen digits.
DecodeTime(t) ==
  LET digits == Front(t.content)
      century == IF TwoDigits(digits, 1) < 50 THEN <<50, 48>> ELSE <<49, 57>>
      text == IF t.tag = TagUtcTime THEN century \o digits ELSE digits
  IN  IF /\ \/ t.tag = TagUtcTime /\ Len(t.content) = 13
            \/ t.tag = TagGeneralizedTime /\ Len(t.content) = 15
         /\ Last(t.content) = Zulu
         /\ \A k \in DOMAIN digits : digits[k] \in Digits
         /\ IsDatetime(text)
      THEN {text} ELSE {}

\* strftime("%Y"): where years are not padded, they begin at their first digit
\* that is not zero (and decode_time refuses what is written then).
FirstYearDigit(year) ==
  CASE PadsYears \/ year >= 1000 -> 1
    [] ~PadsYears /\ year \in 100 .. 999 -> 2
    [] ~PadsYears /\ year \in 10 .. 99 -> 3
    [] OTHER -> 4

\* encode_time
EncodeTime(text) ==
  IF Years(text) \in 1950 .. 2049
  THEN EncodeTlv(TagUtcTime, Append(SubSeq(text, 3, 14), Zulu))
  ELSE EncodeTlv(TagGeneralizedTime, Append(SubSeq(text, FirstYearDigit(Years(text)), 14), Zulu))

\* Validity.from_der: <<not_before, not_after>>.
DecodeValidity(data) ==
  UNION {UNION {IF Len(members) # 2 THEN {}
                ELSE DecodeTime(members[1]) \X DecodeTime(members[2]) :
                  members \in IterSequence(t.content)} :
           t \in {u \in ReadTlv(data, 1) : u.tag = TagSequence}}

EncodeValidity(validity) == EncodeSequence(<<EncodeTime(validity[1]), EncodeTime(validity[2])>>)

-----------------------------------------------------------------------------
(* Entries *)

\* Extension.from_der
IsExtension(data) ==
  \E t \in WholeTlv(data, TagSequence) : \E members \in IterSequence(t.content) :
    /\ Len(members) >= 2
    /\ DecodeOid(members[1].content) # {}
    /\ \/ members[2].tag = TagOctetString
       \/ /\ members[2].tag = TagBoolean
          /\ Len(members[2].content) = 1
          /\ Len(members) >= 3
          /\ members[3].tag = TagOctetString

\* The extensions of a [3] field.
ExtensionsOf(field) ==
  UNION {UNION {{[k \in DOMAIN extensions |-> extensions[k].der] :
                   extensions \in IterSequence(inner[1].content)} :
           inner \in {i \in IterSequence(field.content) : Len(i) = 1 /\ i[1].tag = TagSequence}}}

IsOptionalField(field) ==
  \/ field.tag \in {Implicit(1), Implicit(2)} /\ DecodeBitString(field.content) # {}
  \/ /\ field.tag = Explicit(3)
     /\ \E extensions \in ExtensionsOf(field) : \A k \in DOMAIN extensions : IsExtension(extensions[k])

\* The last field with a tag wins.
LastTagged(fields, tag) ==
  {fields[k] : k \in {i \in DOMAIN fields :
                        fields[i].tag = tag /\ \A j \in i + 1 .. Len(fields) : fields[j].tag # tag}}

HasVersion(fields) == fields # << >> /\ fields[1].tag = Explicit(0)

V1 == <<0>>
V3 == <<2>>

\* from_content_octets: the version field, if any.
VersionsOf(fields) ==
  IF HasVersion(fields)
  THEN {Minimal(inner[1].content) :
          inner \in {i \in IterSequence(fields[1].content) :
                       Len(i) = 1 /\ i[1].tag = TagInteger /\ i[1].content # << >>}}
  ELSE {V1}

\* The checks of from_content_octets on the fields after the version.
HasEntryFields(fields, o) ==
  /\ Len(fields) >= o + 4
  /\ fields[o + 4].tag = TagOctetString
  /\ IsName(fields[o + 1].der)
  /\ IsName(fields[o + 3].der)
  /\ \A k \in o + 5 .. Len(fields) : IsOptionalField(fields[k])

\* The entry with these fields.
EntryOf(fields, o, version, validity) ==
  LET optional == SubSeq(fields, o + 5, Len(fields))
      bitsOf(tag) == UNION {{b.bits : b \in DecodeBitString(f.content)} : f \in LastTagged(optional, tag)}
  IN  [version |-> version, issuer |-> fields[o + 1].der, validity |-> validity,
       subject |-> fields[o + 3].der, spkiHash |-> fields[o + 4].content,
       issuerId |-> bitsOf(Implicit(1)), subjectId |-> bitsOf(Implicit(2)),
       extensions |-> UNION {ExtensionsOf(f) : f \in LastTagged(optional, Explicit(3))}]

\* TBSCertificateLogEntry.from_content_octets
ParseEntry(content) ==
  LET parse(fields) ==
        LET o == IF HasVersion(fields) THEN 1 ELSE 0
        IN  IF ~HasEntryFields(fields, o) THEN {}
            ELSE {EntryOf(fields, o, version, validity) :
                    version \in VersionsOf(fields), validity \in DecodeValidity(fields[o + 2].der)}
  IN  UNION {parse(fields) : fields \in IterSequence(content)}

\* TBSCertificateLogEntry.validate
ValidEntry(entry) ==
  /\ entry.issuer = LogName
  /\ Len(entry.spkiHash) = HashSize
  /\ entry.extensions \subseteq {<< >>} \/ entry.version = V3

\* _bit_string_body: no unused bits.
UniqueId(n, ids) == {EncodeTlv(Implicit(n), <<0>> \o bits) : bits \in ids}

One(part) == SetToSeq(part)

\* _content_parts: the fields in their order.
ContentParts(entry) ==
  (IF entry.version = V1 THEN << >>
   ELSE <<EncodeTlv(Explicit(0), EncodeInteger(entry.version))>>)
  \o <<entry.issuer, EncodeValidity(entry.validity), entry.subject,
       EncodeTlv(TagOctetString, entry.spkiHash)>>
  \o One(UniqueId(1, entry.issuerId))
  \o One(UniqueId(2, entry.subjectId))
  \o One({EncodeTlv(Explicit(3), EncodeSequence(e)) : e \in entry.extensions \ {<< >>}})

\* content_octets
ContentOctets(entry) == FlattenSeq(ContentParts(entry))

\* MerkleTreeCertEntry
NullEntry == 0
TbsCertEntry == 1

EncodeEntry(e) == Uint(e.type, 2) \o e.data

DecodeEntry(data) ==
  {e \in {[type |-> type.value, data |-> SubSeq(data, 3, Len(data))] :
            type \in {[value |-> ValueOf(t.value)] : t \in Read(data, 1, 2)}} :
     e.type = NullEntry => e.data = << >>}

\* The entry of a parsed certificate (MerkleTreeCertEntry.tbs_cert), and back.
TbsCert(entry) == [type |-> TbsCertEntry, data |-> ContentOctets(entry)]

TbsCertificateLogEntry(e) == IF e.type = TbsCertEntry THEN ParseEntry(e.data) ELSE {}

\* What entry_hash hashes: the leaf prefix and the entry.
EntryHashInput(e) == <<0>> \o EncodeEntry(e)

\* Slip: the hash is always the fifth field.
PartsBeforeHashFixed(entry) == 4

PartsBeforeHash(entry) == IF entry.version = V1 THEN 3 ELSE 4

\* What entry_hash_single_pass hashes.
SinglePassInput(entry) ==
  LET parts == ContentParts(entry)
      n == PartsBeforeHash(entry)
  IN  <<0>> \o Uint(TbsCertEntry, 2) \o FlattenSeq(SubSeq(parts, 1, n))
        \o <<TagOctetString, Len(entry.spkiHash)>> \o entry.spkiHash
        \o FlattenSeq(SubSeq(parts, n + 2, Len(parts)))
=============================================================================
