---------------------------- MODULE SnmpMessage ----------------------------
(***************************************************************************)
(* internal/snmp/client.go: the request as the client builds it, and the   *)
(* response as it reads it; beside them, the messages that an agent sends  *)
(* and understands by the standard (X.690, RFC 3416), which are written    *)
(* here without any of the client's operators. Of a value the kind and the *)
(* number are told apart, not the text.                                    *)
(***************************************************************************)
EXTENDS Ber

CONSTANTS
    RequestIds,   \* bound: what rand.Int31 may draw
    Community,    \* the community string, as bytes
    LengthForms   \* how an agent may write lengths: see LengthAs

\* The numbers that fill an int64.
Numbers == (-128 * TopByte)..(128 * TopByte - 1)

\* The numbers that fill a uint64.
Arc == 0..(K * TopByte - 1)

ASSUME MessageAssumption ==
    /\ RequestIds \subseteq Numbers
    /\ Community \in Seq(Byte)
    /\ LengthForms \subseteq 0..126

----------------------------------------------------------------------------
(* The client.                                                             *)

buildMessage(pduTag, requestID, oids) ==
    LET VarBind(oid) ==
            encodeTLV(tagSequence, encodeOID(oid) \o encodeTLV(tagNull, << >>))
        varbinds ==
            FoldLeft(LAMBDA out, oid : out \o VarBind(oid), << >>, oids)
        pdu == encodeInteger(requestID) \o encodeInteger(0) \o encodeInteger(0)
                   \o encodeTLV(tagSequence, varbinds)
    IN encodeTLV(tagSequence,
                 encodeInteger(1) \o encodeTLV(tagOctetStr, Community)
                     \o encodeTLV(pduTag, pdu))

Numeric == [tag \in {tagInteger, tagCounter32, tagCounter64, tagGauge32,
                     tagTimeTicks} |->
               CASE tag = tagInteger -> "int"
                 [] tag = tagGauge32 -> "gauge"
                 [] tag = tagTimeTicks -> "ticks"
                 [] OTHER -> "counter"]

decodeValue(t) ==
    IF t.tag \in DOMAIN Numeric
    THEN [kind |-> Numeric[t.tag], int |-> decodeInteger(t.content)]
    ELSE [int |-> 0,
          kind |-> CASE t.tag = tagOctetStr -> "string"
                     [] t.tag = tagOID -> "oid"
                     [] t.tag = tagNoSuchObject -> "no-such-object"
                     [] t.tag = tagNoSuchInstance -> "no-such-instance"
                     [] t.tag = tagEndOfMibView -> "end-of-mib-view"
                     [] OTHER -> "null"]

\* The first n triples of the data, one after the other, or an error.
Triples(data, n) ==
    LET read[i \in 0..n] ==
            IF i = 0 THEN [ok |-> TRUE, got |-> << >>, rest |-> data]
            ELSE LET before == read[i - 1]
                     t == decodeTLV(before.rest) IN
                 IF ~before.ok \/ ~t.ok THEN Malformed
                 ELSE [ok |-> TRUE, got |-> Append(before.got, t),
                       rest |-> From(before.rest, t.consumed + 1)]
    IN read[n]

\* The results with a value for oid, unless they have one.
Unless(results, oid, value) ==
    [o \in DOMAIN results \cup {oid} |->
        IF o \in DOMAIN results THEN results[o] ELSE value]

\* A later varbind of the same name replaces an earlier one.
parseVarbinds(data) ==
    LET read[rest \in Seq(Nat)] ==
            IF rest = << >> THEN [ok |-> TRUE, results |-> << >>]
            ELSE LET vb == decodeTLV(rest)
                     pair == Triples(vb.content, 2)
                     others == read[From(rest, vb.consumed + 1)] IN
                 IF ~vb.ok \/ ~pair.ok \/ ~others.ok THEN Malformed
                 ELSE LET oid == decodeOID(pair.got[1].content) IN
                      [ok |-> TRUE,
                       results |-> Unless(others.results, oid,
                                          decodeValue(pair.got[2]))]
    IN read[data]

\* SEQUENCE { version, community, pdu }, and in the pdu { request-id,
\* error-status, error-index, varbinds }; all but the status is skipped.
parseResponse(data) ==
    LET envelope == decodeTLV(data)
        message == Triples(envelope.content, 3)
        pdu == Triples(message.got[3].content, 4)
    IN IF ~envelope.ok \/ envelope.tag # tagSequence \/ ~message.ok
          \/ message.got[3].tag # tagGetResponse \/ ~pdu.ok
          \/ decodeInteger(pdu.got[2].content) # 0
       THEN Malformed
       ELSE parseVarbinds(pdu.got[4].content)
----------------------------------------------------------------------------
(* The standard, as an agent follows it.                                   *)

\* n divided by a base i times (a negative n is in its complement), and what
\* is left each time: its last k digits.
Quotients(n, base, k) ==
    LET q[i \in 0..k] == IF i = 0 THEN n ELSE q[i - 1] \div base IN q
Fixed(n, base, k) == [i \in 1..k |-> Quotients(n, base, k)[k - i] % base]

\* The fewest digits that tell n, if the first of them is low or more.
Fewest(n, base, low) ==
    LET Tells(k) == Quotients(n, base, k)[k - 1] \in low..(low + base - 1) IN
    CHOOSE k \in 1..((IF n < 0 THEN -n ELSE n) + 1) :
        Tells(k) /\ \A i \in 1..(k - 1) : ~Tells(i)

\* Form 0 is the shortest; form k the long one with k bytes (126 at most), or
\* more if the length takes them.
LengthAs(form, n) ==
    IF form = 0 /\ n < 128 THEN <<n>>
    ELSE LET k == Max({form, Fewest(n, K, 0)}) IN <<128 + k>> \o Fixed(n, K, k)

TripleAs(form, tag, content) ==
    <<tag>> \o LengthAs(form, Len(content)) \o content

\* Two's complement, in the fewest bytes.
IntegerAs(form, tag, n) ==
    TripleAs(form, tag, Fixed(n, K, Fewest(n, K, -128)))

\* Base 128 in the fewest digits, all but the last one marked.
ArcAs(arc) ==
    LET k == Fewest(arc, 128, 0) IN
    [i \in 1..k |-> Fixed(arc, 128, k)[i] + IF i < k THEN 128 ELSE 0]

OIDAs(form, oid) ==
    TripleAs(form, tagOID,
             <<oid[1] * 40 + oid[2]>>
                 \o FlattenSeq([i \in 1..(Len(oid) - 2) |-> ArcAs(oid[i + 2])]))

\* A varbind: an OID with a tag and a number, or a text of so many letters.
VarBind(oid, tag, n) == [oid |-> oid, tag |-> tag, n |-> n]

ValueAs(form, vb) ==
    IF vb.tag \in {tagInteger, tagCounter32, tagTimeTicks}
    THEN IntegerAs(form, vb.tag, vb.n)
    ELSE TripleAs(form, vb.tag, [i \in 1..vb.n |-> 65])

VarBindsAs(form, varbinds) ==
    FlattenSeq([i \in DOMAIN varbinds |->
                   TripleAs(form, tagSequence,
                            OIDAs(form, varbinds[i].oid)
                                \o ValueAs(form, varbinds[i]))])

MessageAs(form, pduTag, id, status, varbinds) ==
    TripleAs(form, tagSequence,
        IntegerAs(form, tagInteger, 1)
            \o TripleAs(form, tagOctetStr, Community)
            \o TripleAs(form, pduTag,
                   IntegerAs(form, tagInteger, id)
                       \o IntegerAs(form, tagInteger, status)
                       \o IntegerAs(form, tagInteger, 0)
                       \o TripleAs(form, tagSequence,
                                   VarBindsAs(form, varbinds))))
----------------------------------------------------------------------------
(* Client and agent.                                                       *)

Asking(oids) == [i \in DOMAIN oids |-> VarBind(oids[i], tagNull, 0)]

\* Does an agent understand what the client asks?
Understood(pduTag, oids) ==
    \A id \in RequestIds :
        buildMessage(pduTag, id, oids) = MessageAs(0, pduTag, id, 0, Asking(oids))

\* What the client may make of a reply, in each way it may be written.
Received(reply) ==
    {parseResponse(MessageAs(form, tagGetResponse, id, reply.status,
                             reply.varbinds)) :
        form \in LengthForms, id \in RequestIds}
============================================================================
