-------------------------------- MODULE Ber --------------------------------
(***************************************************************************)
(* internal/snmp/ber.go and oid.go: lengths, tag-length-value triples,     *)
(* integers and object identifiers as bytes. A byte is a number below 256, *)
(* an OID the sequence of its arcs (the text between its dots is written   *)
(* and read back as the same numbers). "b & 0x80" asks for b >= 128, and   *)
(* "v >> 8" and "byte(v)" are the floor of v / 256 and its remainder, of a *)
(* negative v too.                                                         *)
(***************************************************************************)
EXTENDS Integers, SequencesExt

CONSTANT TopByte   \* a 1 in the top byte of an int64: 2^56, in runs less

ASSUME BerAssumption == TopByte \in Nat \ {0}

Byte == 0..255
K == 256

tagInteger == 2
tagOctetStr == 4
tagNull == 5
tagOID == 6
tagSequence == 48
tagCounter32 == 65
tagGauge32 == 66
tagTimeTicks == 67
tagCounter64 == 70
tagNoSuchObject == 128
tagNoSuchInstance == 129
tagEndOfMibView == 130
tagGetRequest == 160
tagGetNextRequest == 161
tagGetResponse == 162

\* An error of any of the decoders.
Malformed == [ok |-> FALSE]
From(s, i) == SubSeq(s, i, Len(s))
----------------------------------------------------------------------------
(* Lengths and triples.                                                    *)

\* v << 8 | b, in the width of an int64: the top byte of v is lost.
ShiftedIn(v, b) ==
    LET low == (v % TopByte) * K + b IN
    IF low >= 128 * TopByte THEN low - K * TopByte ELSE low

\* The digits of n, most significant first, as the shifting loops build them.
Digits(n, base) ==
    LET d[v \in Nat] ==
            IF v < base THEN <<v>> ELSE Append(d[v \div base], v % base)
    IN d[n]

encodeLength(n) ==
    IF n < 128 THEN <<n>>
    ELSE LET lenBytes == Digits(n, K) IN <<128 + Len(lenBytes)>> \o lenBytes

\* Seeded fault: the length of the length is not counted as consumed.
decodeLengthShort(data) ==
    IF data = << >> THEN Malformed
    ELSE IF data[1] < 128 THEN [ok |-> TRUE, length |-> data[1], consumed |-> 1]
    ELSE LET numBytes == data[1] - 128 IN
         IF numBytes = 0 \/ Len(data) < 1 + numBytes THEN Malformed
         ELSE [ok |-> TRUE, consumed |-> numBytes,
               length |-> FoldLeft(ShiftedIn, 0, SubSeq(data, 2, 1 + numBytes))]

decodeLength(data) ==
    IF data = << >> THEN Malformed
    ELSE IF data[1] < 128 THEN [ok |-> TRUE, length |-> data[1], consumed |-> 1]
    ELSE LET numBytes == data[1] - 128 IN
         IF numBytes = 0 \/ Len(data) < 1 + numBytes THEN Malformed
         ELSE [ok |-> TRUE, consumed |-> 1 + numBytes,
               length |-> FoldLeft(ShiftedIn, 0, SubSeq(data, 2, 1 + numBytes))]

encodeTLV(tag, content) == <<tag>> \o encodeLength(Len(content)) \o content

\* Where the bytes of a length overflow an int it may be negative: the content
\* is found long enough, and the slice that takes it panics. Here that is one
\* more triple that cannot be read.
decodeTLV(data) ==
    IF Len(data) < 2 THEN Malformed
    ELSE LET size == decodeLength(Tail(data))
             start == 1 + size.consumed IN
         IF ~size.ok \/ size.length < 0 \/ Len(data) < start + size.length
         THEN Malformed
         ELSE [ok |-> TRUE, tag |-> data[1], consumed |-> start + size.length,
               content |-> SubSeq(data, start + 1, start + size.length)]
----------------------------------------------------------------------------
(* Integers.                                                               *)

\* Bytes are put in front until the sign is all that is left of v, and the
\* first of them shows it.
encodeInteger(n) ==
    LET sign == IF n < 0 THEN -1 ELSE 0
        bytes[v \in Int] ==
            IF v \div K = sign /\ ((v % K) >= 128) = (n < 0) THEN <<v % K>>
            ELSE Append(bytes[v \div K], v % K)
    IN encodeTLV(tagInteger, bytes[n])

Signed(b) == IF b >= 128 THEN b - K ELSE b   \* int8(b)

\* Seeded fault: every byte is taken for signed.
decodeIntegerOfSigned(content) ==
    IF content = << >> THEN 0
    ELSE FoldLeft(LAMBDA v, b : ShiftedIn(v, b) + Signed(b) - b,
                  Signed(content[1]), Tail(content))

decodeInteger(content) ==
    IF content = << >> THEN 0
    ELSE FoldLeft(ShiftedIn, Signed(content[1]), Tail(content))
----------------------------------------------------------------------------
(* Object identifiers.                                                     *)

encodeOIDArc(arc) ==
    LET d == Digits(arc, 128) IN
    [i \in DOMAIN d |-> IF i < Len(d) THEN 128 + d[i] ELSE d[i]]

\* byte(arcs[0]*40 + arcs[1]), then arc by arc. OIDs here have two or more.
encodeOID(oid) ==
    encodeTLV(tagOID,
              FoldLeft(LAMBDA out, arc : out \o encodeOIDArc(arc),
                       <<(oid[1] * 40 + oid[2]) % K>>, From(oid, 3)))

\* The arcs read so far, and the one whose bytes are being read, in the width
\* of a uint64.
WithByte(acc, b) ==
    LET current == (acc.current * 128 + (b % 128)) % (K * TopByte) IN
    IF b < 128 THEN [arcs |-> Append(acc.arcs, current), current |-> 0]
    ELSE [arcs |-> acc.arcs, current |-> current]

decodeOID(content) ==
    IF content = << >> THEN << >>
    ELSE FoldLeft(WithByte,
                  [arcs |-> <<content[1] \div 40, content[1] % 40>>,
                   current |-> 0],
                  Tail(content)).arcs
============================================================================
