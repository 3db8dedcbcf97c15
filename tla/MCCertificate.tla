----------------------------- MODULE MCCertificate -----------------------------
(***************************************************************************)
(* Checks the certificate codecs on everything that is within MaxVaried    *)
(* parts of one certificate: each part in its usual encoding or in another *)
(* that some encoder may produce, and then any one octet changed.          *)
(***************************************************************************)
EXTENDS Certificate

CONSTANTS
  MaxVaried,    \* bound: the parts in another than the usual encoding
  MaxCorrupted, \* bound: the varied parts of a certificate with a changed octet
  Octets        \* bound: what an octet is changed to

Tlv(tag, content) == EncodeTlv(tag, content)
LongTlv(tag, content) == <<tag, 129, Len(content)>> \o content

MCLogText == <<49, 46, 50>>
MCSpkiHash(spki) == <<FoldLeft(LAMBDA h, o : (3 * h + o) % 251, 7, spki), Len(spki) % 256>>

\* 260102000000Z, with another second digit for the month.
UtcTime(month) == Tlv(23, <<50, 54, 48, month, 48, 50>> \o [k \in 1 .. 6 |-> 48] \o <<90>>)
LongTime(century) == Tlv(24, century \o <<50, 54, 48, 49, 48, 50>> \o [k \in 1 .. 6 |-> 48] \o <<90>>)
Times(first, second) == EncodeSequence(<<first, second>>)

Attribute(last, value) == EncodeSequence(<<Tlv(6, <<85, 4, last>>), Tlv(12, value)>>)
NameOf(attributes) == EncodeSequence(<<Tlv(49, FlattenSeq(attributes))>>)
Extension(oid, middle) == EncodeSequence(<<Tlv(6, oid), middle, Tlv(4, <<5>>)>>)
ExtensionsOfCert(list) == Tlv(163, EncodeSequence(list))
Key(unused) == EncodeSequence(<<EncodeSequence(<<Tlv(6, <<42, 3>>)>>), Tlv(3, <<unused, 96>>)>>)

Proof(start, end, nodes, signatures, rest) ==
  Uint(start, 2) \o Uint(end, 2) \o Vector(nodes, 2) \o Vector(signatures, 2) \o rest
OneSignature == <<1, 7, 0, 1, 153>>
ProofOf(start, end) == Proof(start, end, <<8, 9>>, OneSignature, << >>)

\* The encodings of each part, the usual one first.
Encodings ==
  [version |-> <<Tlv(160, Tlv(2, <<2>>)), << >>, Tlv(160, Tlv(2, <<1>>)), Tlv(160, Tlv(2, <<0>>)),
                 Tlv(160, Tlv(2, <<0, 2>>))>>,
   serial |-> <<Tlv(2, <<5>>), Tlv(2, <<0, 5>>), Tlv(2, <<133>>), LongTlv(2, <<5>>), Tlv(2, <<0, 128, 5>>),
                Tlv(2, <<1, 0, 5>>)>>,
   tbsAlgorithm |-> <<MtcAlgorithm, EncodeSequence(<<Tlv(6, <<42, 3>>), Tlv(5, << >>)>>)>>,
   issuer |-> <<LogName, NameOf(<<Attribute(3, <<65>>)>>)>>,
   validity |-> <<Times(UtcTime(49), UtcTime(50)), Times(UtcTime(49), LongTime(<<50, 48>>)),
                  Times(UtcTime(49), LongTime(<<50, 49>>)), Times(LongTime(<<48, 48>>), UtcTime(50)),
                  Times(UtcTime(48), UtcTime(50))>>,
   subject |-> <<NameOf(<<Attribute(3, <<65>>)>>), EncodeSequence(<< >>),
                 NameOf(<<Attribute(3, <<65>>), Attribute(4, <<65>>)>>),
                 NameOf(<<Attribute(4, <<65>>), Attribute(3, <<65>>)>>)>>,
   spki |-> <<Key(0), Key(5), Key(6)>>,
   issuerId |-> << << >>, Tlv(129, <<0, 240>>), Tlv(129, <<4, 240>>), Tlv(129, <<4, 255>>), Tlv(129, <<0>>),
                  Tlv(129, <<1>>)>>,
   subjectId |-> << << >>, Tlv(130, <<0, 240>>), Tlv(130, <<4, 240>>), LongTlv(130, <<0, 240>>)>>,
   extensions |-> <<ExtensionsOfCert(<<Extension(<<85, 29>>, << >>)>>), << >>, ExtensionsOfCert(<< >>),
                    ExtensionsOfCert(<<Extension(<<85, 29>>, << >>), Extension(<<85, 30>>, Tlv(1, <<255>>))>>),
                    ExtensionsOfCert(<<Extension(<<85, 29>>, << >>), Extension(<<85, 29>>, Tlv(1, <<255>>))>>),
                    ExtensionsOfCert(<<Extension(<<85, 29>>, Tlv(1, <<0>>))>>),
                    ExtensionsOfCert(<<Extension(<<85, 128, 29>>, << >>)>>)>>,
   after |-> << << >>, Tlv(129, <<0, 15>>), Tlv(132, <<0>>)>>,
   algorithm |-> <<MtcAlgorithm, EncodeSequence(<<Tlv(6, <<42, 3>>)>>)>>,
   padding |-> <<<<0>>, <<1>>>>,
   proof |-> <<ProofOf(4, 6), ProofOf(0, 8), ProofOf(3, 6), ProofOf(6, 8), ProofOf(6, 4),
               Proof(4, 6, <<8, 9, 10>>, << >>, << >>), Proof(4, 6, << >>, << >>, << >>),
               Proof(4, 6, <<8, 9>>, OneSignature \o OneSignature, << >>),
               Proof(4, 6, <<8, 9>>, <<0, 0, 0>>, << >>), Proof(4, 6, <<8, 9>>, OneSignature, <<0>>)>>]

Parts == DOMAIN Encodings

Assembled(choice) ==
  LET part(p) == Encodings[p][choice[p]]
      tbs == EncodeSequence(<<part("version"), part("serial"), part("tbsAlgorithm"), part("issuer"),
                              part("validity"), part("subject"), part("spki"), part("issuerId"),
                              part("subjectId"), part("extensions"), part("after")>>)
  IN  EncodeSequence(<<tbs, part("algorithm"), Tlv(3, part("padding") \o part("proof"))>>)

VARIABLES choice, presented

Usual == [p \in Parts |-> 1]
Varied == {p \in Parts : choice[p] # 1}

CertInit == choice = Usual /\ presented = Assembled(Usual)

\* Another part in another encoding.
Vary(p) ==
  /\ presented = Assembled(choice)
  /\ Cardinality(Varied) < MaxVaried
  /\ choice[p] = 1
  /\ \E k \in 2 .. Len(Encodings[p]) :
       /\ choice' = [choice EXCEPT ![p] = k]
       /\ presented' = Assembled(choice')

\* One octet is changed.
Corrupt(k) ==
  /\ presented = Assembled(choice)
  /\ Cardinality(Varied) <= MaxCorrupted
  /\ \E octet \in Octets : presented' = [presented EXCEPT ![k] = octet]
  /\ UNCHANGED choice

CertNext == (\E p \in Parts : Vary(p)) \/ (\E k \in DOMAIN presented : Corrupt(k))

CertSpec == CertInit /\ [][CertNext]_<<choice, presented>>

-----------------------------------------------------------------------------
(* Properties *)

\* A certificate that the strict decoder accepts is the only encoding of what it
\* says: it re-encodes to the same octets, and from the entry its log keeps, its
\* index, key and proof the CA rebuilds exactly it.  Nobody can present a second
\* certificate for the same entry with the same index, key and proof, and
\* from_log_entry never refuses the entry of an accepted certificate.
AcceptedIsCanonical ==
  \A c \in DecodeCertificate(presented) :
    /\ EncodeCertificate(c) = presented
    /\ \A logged \in ToLogEntry(c.tbs) : \A entry \in DecodeEntry(EncodeEntry(logged)) :
         FromLogEntry(entry, SerialNumber(c.tbs), Spki(c.tbs)) = {c.tbs}

\* What entry_hash_single_pass hashes is what entry_hash hashes, for the entry of
\* every accepted certificate that the parsed entry can express: one without
\* unused bits in a unique ID and with both times as encode_time writes them.
\* That leaves out a GeneralizedTime for a year that UTCTime can express and,
\* where strftime does not pad, any year below 1000.  For all
\* others it differs; the verifier therefore uses entry_hash.  And the CA that is
\* asked for such a certificate, without unique IDs, logs exactly its entry.
SinglePassAgrees ==
  \A c \in DecodeCertificate(presented) : \A logged \in ToLogEntry(c.tbs) :
    \A entry \in TbsCertificateLogEntry(logged) :
      LET fields == c.tbs.fields
          expressible ==
            /\ \A k \in DOMAIN fields :
                 fields[k].tag \in {Implicit(1), Implicit(2)} => fields[k].content[1] = 0
            /\ EncodeValidity(entry.validity) = fields[Offset(fields) + 4].der
      IN  /\ SinglePassInput(entry) = EntryHashInput(logged) <=> expressible
          /\ entry.issuerId = {} /\ entry.subjectId = {} =>
               (logged \in TbsCertEntryFor(Spki(c.tbs), entry) <=> expressible)
=============================================================================
