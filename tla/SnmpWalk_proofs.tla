--------------------------- MODULE SnmpWalk_proofs ---------------------------
(***************************************************************************)
(* Theorems about SnmpWalk, for any rows, limit, octets and number of      *)
(* changes. What they need of the bytes, CodecFaithful, is proved here     *)
(* from the lemmas of SnmpMessage_proofs.                                  *)
(***************************************************************************)
EXTENDS SnmpWalk, SnmpMessage_proofs, FiniteSetTheorems

LEMMA ColumnNumbers ==
    /\ Columns = {1, 2, 3, 4} /\ descr = 1 /\ operStatus = 2
    /\ inOctets = 3 /\ outOctets = 4 /\ descr \in Columns /\ 2 \in Columns
    /\ 3 \in Columns /\ 4 \in Columns
BY DEF Columns, descr, operStatus, inOctets, outOctets

\* What two sequences have in common, and what a prefix is, index by index.
LEMMA CommonPart ==
    ASSUME NEW S, NEW s \in Seq(S), NEW t \in Seq(S),
           NEW n \in Nat, n <= Len(s), n <= Len(t)
    PROVE  SubSeq(s, 1, n) = SubSeq(t, 1, n) <=> \A i \in 1..n : s[i] = t[i]
<1>1. Len(s) \in Nat /\ Len(t) \in Nat
  BY LenProperties
<1>2. \A i \in 1..n : s[i] \in S /\ t[i] \in S
  BY <1>1, ElementOfSeq
<1>3. /\ SubSeq(s, 1, n) \in Seq(S) /\ Len(SubSeq(s, 1, n)) = n
      /\ \A i \in 1..n : SubSeq(s, 1, n)[i] = s[i]
  BY <1>2, SubSeqProperties
<1>4. /\ SubSeq(t, 1, n) \in Seq(S) /\ Len(SubSeq(t, 1, n)) = n
      /\ \A i \in 1..n : SubSeq(t, 1, n)[i] = t[i]
  BY <1>2, SubSeqProperties
<1>5. ASSUME SubSeq(s, 1, n) = SubSeq(t, 1, n)
      PROVE  \A i \in 1..n : s[i] = t[i]
  BY <1>3, <1>4, <1>5
<1>6. ASSUME \A i \in 1..n : s[i] = t[i]
      PROVE  SubSeq(s, 1, n) = SubSeq(t, 1, n)
  BY <1>3, <1>4, <1>6, SeqEqual
<1> QED
  BY <1>5, <1>6

LEMMA BaseShape ==
    ASSUME NEW c \in Columns
    PROVE  /\ Base(c) \in Seq(Nat) /\ Len(Base(c)) = 10
           /\ Base(c)[10] = <<2, 8, 10, 16>>[c]
<1>1. IfEntry \in Seq(Nat) /\ Len(IfEntry) = 9
  BY DEF IfEntry
<1>2. /\ <<(<<2, 8, 10, 16>>)[c]>> \in Seq(Nat)
      /\ Len(<<(<<2, 8, 10, 16>>)[c]>>) = 1
      /\ <<(<<2, 8, 10, 16>>)[c]>>[1] = <<2, 8, 10, 16>>[c]
  BY ColumnNumbers
<1> DEFINE last == <<(<<2, 8, 10, 16>>)[c]>>
<1> HIDE DEF last
<1>3. last \in Seq(Nat) /\ Len(last) = 1 /\ last[1] = <<2, 8, 10, 16>>[c]
  BY <1>2 DEF last
<1>4. Base(c) = IfEntry \o last
  BY DEF Base, last
<1>5. /\ Base(c) \in Seq(Nat) /\ Len(Base(c)) = Len(IfEntry) + Len(last)
      /\ \A i \in (Len(IfEntry) + 1)..(Len(IfEntry) + Len(last)) :
            Base(c)[i] = last[i - Len(IfEntry)]
  <2>1. last \in Seq(Nat) /\ IfEntry \in Seq(Nat)
    BY <1>1, <1>3
  <2>2. /\ IfEntry \o last \in Seq(Nat)
        /\ Len(IfEntry \o last) = Len(IfEntry) + Len(last)
        /\ \A i \in (Len(IfEntry) + 1)..(Len(IfEntry) + Len(last)) :
              (IfEntry \o last)[i] = last[i - Len(IfEntry)]
    BY <2>1, Concatenated
  <2> QED
    BY <2>2, <1>4
<1>6. Len(Base(c)) = 10 /\ Base(c)[10] = last[10 - 9]
  BY <1>1, <1>3, <1>5
<1>7. Base(c)[10] = last[1]
  BY <1>6
<1> QED
  BY <1>3, <1>5, <1>6, <1>7

\* An OID in the subtree of a column is that of a row in this very column.
LEMMA Subtree ==
    ASSUME NEW c \in Columns, NEW d \in Columns, NEW r \in Seq(Nat)
    PROVE  /\ IsStrictPrefix(Base(c), Oid(d, r)) => c = d
           /\ From(Oid(d, r), Len(Base(d)) + 1) = r
<1>1. Base(d) \in Seq(Nat) /\ Len(Base(d)) = 10 /\ Len(r) \in Nat
  BY BaseShape, LenProperties
<1>2. Base(c) \in Seq(Nat) /\ Len(Base(c)) = 10
  BY BaseShape
<1> DEFINE oid == Oid(d, r)
<1>3. /\ oid \in Seq(Nat) /\ Len(oid) = 10 + Len(r)
      /\ \A i \in 1..10 : oid[i] = Base(d)[i]
      /\ \A i \in 11..(10 + Len(r)) : oid[i] = r[i - 10]
  <2>1. /\ oid \in Seq(Nat) /\ Len(oid) = Len(Base(d)) + Len(r)
        /\ \A i \in 1..Len(Base(d)) : oid[i] = Base(d)[i]
        /\ \A i \in (Len(Base(d)) + 1)..(Len(Base(d)) + Len(r)) :
              oid[i] = r[i - Len(Base(d))]
    BY <1>1, Concatenated DEF Oid
  <2>2. 10 + 1 = 11
    OBVIOUS
  <2> QED
    BY <2>1, <2>2, <1>1
<1> HIDE DEF oid
<1>4. ASSUME IsStrictPrefix(Base(c), oid) PROVE c = d
  <2>1. SubSeq(Base(c), 1, 10) = SubSeq(oid, 1, 10)
    BY <1>2, <1>4 DEF IsStrictPrefix, IsPrefix
  <2>2. \A i \in 1..10 : Base(c)[i] = oid[i]
    <3>1. oid \in Seq(Nat) /\ 10 <= Len(oid) /\ 10 <= Len(Base(c)) /\ 10 \in Nat
      BY <1>1, <1>2, <1>3
    <3> DEFINE n == 10
    <3>2. SubSeq(Base(c), 1, n) = SubSeq(oid, 1, n) /\ n \in Nat
      BY <2>1
    <3>3. n <= Len(oid) /\ n <= Len(Base(c))
      BY <3>1
    <3> HIDE DEF n
    <3>4. \A i \in 1..n : Base(c)[i] = oid[i]
      BY <3>1, <3>2, <3>3, <1>2, CommonPart
    <3> QED
      BY <3>4 DEF n
  <2>3. <<2, 8, 10, 16>>[c] = <<2, 8, 10, 16>>[d]
    BY <2>2, <1>3, BaseShape
  <2> QED
    BY <2>3, ColumnNumbers
<1>5. SubSeq(oid, 11, 10 + Len(r)) = r
  <2>1. \A i \in 11..(10 + Len(r)) : oid[i] \in Nat
    <3>1. \A i \in 1..Len(r) : r[i] \in Nat
      BY ElementOfSeq
    <3>2. \A i \in 11..(10 + Len(r)) : i - 10 \in 1..Len(r)
      BY <1>1
    <3> QED
      BY <3>1, <3>2, <1>3
  <2>2. /\ SubSeq(oid, 11, 10 + Len(r)) \in Seq(Nat)
        /\ Len(SubSeq(oid, 11, 10 + Len(r))) = Len(r)
        /\ \A i \in 1..Len(r) : SubSeq(oid, 11, 10 + Len(r))[i] = oid[10 + i]
    BY <2>1, <1>1, SubSeqProperties
  <2>3. \A i \in 1..Len(r) : oid[10 + i] = r[i]
    BY <1>1, <1>3
  <2> QED
    BY <2>2, <2>3, SeqEqual
<1> QED
  BY <1>1, <1>3, <1>4, <1>5 DEF From, oid

LEMMA InOwnSubtree ==
    ASSUME NEW c \in Columns, NEW r \in Seq(Nat), r # << >>
    PROVE  IsStrictPrefix(Base(c), Oid(c, r))
<1>1. Base(c) \in Seq(Nat) /\ Len(Base(c)) \in Nat /\ Len(r) \in Nat \ {0}
  BY BaseShape, LenProperties, EmptySeq
<1> DEFINE oid == Oid(c, r)
<1>2. /\ oid \in Seq(Nat) /\ Len(oid) = Len(Base(c)) + Len(r)
      /\ \A i \in 1..Len(Base(c)) : oid[i] = Base(c)[i]
  BY <1>1, Concatenated DEF Oid
<1> HIDE DEF oid
<1>3. Len(Base(c)) <= Len(oid) /\ Base(c) # oid
  BY <1>1, <1>2
<1>4. SubSeq(Base(c), 1, Len(Base(c))) = SubSeq(oid, 1, Len(Base(c)))
  BY <1>1, <1>2, <1>3, CommonPart
<1> QED
  BY <1>3, <1>4 DEF IsStrictPrefix, IsPrefix, oid

LEMMA NotInSubtree ==
    ASSUME NEW c \in Columns
    PROVE  ~IsStrictPrefix(Base(c), IfEntry \o <<17, 1>>)
<1> DEFINE oid == IfEntry \o <<17, 1>>
<1>1. IfEntry \in Seq(Nat) /\ Len(IfEntry) = 9
  BY DEF IfEntry
<1>2. <<17, 1>> \in Seq(Nat) /\ Len(<<17, 1>>) = 2 /\ <<17, 1>>[1] = 17
  OBVIOUS
<1> DEFINE beyond == <<17, 1>>
<1> HIDE DEF beyond
<1>3. oid \in Seq(Nat) /\ Len(oid) = 11 /\ oid[10] = 17
  <2>1. beyond \in Seq(Nat) /\ Len(beyond) = 2 /\ beyond[1] = 17
    BY <1>2 DEF beyond
  <2>2. /\ IfEntry \o beyond \in Seq(Nat)
        /\ Len(IfEntry \o beyond) = Len(IfEntry) + Len(beyond)
        /\ \A i \in (Len(IfEntry) + 1)..(Len(IfEntry) + Len(beyond)) :
              (IfEntry \o beyond)[i] = beyond[i - Len(IfEntry)]
    BY <2>1, <1>1, Concatenated
  <2>3. oid = IfEntry \o beyond
    BY DEF beyond
  <2> HIDE DEF oid
  <2>4. Len(oid) = 11 /\ oid[10] = beyond[10 - 9]
    BY <2>1, <2>2, <2>3, <1>1
  <2> QED
    BY <2>1, <2>2, <2>3, <2>4
<1>4. Base(c) \in Seq(Nat) /\ Len(Base(c)) = 10
      /\ Base(c)[10] = <<2, 8, 10, 16>>[c]
  BY BaseShape
<1> HIDE DEF oid
<1>5. Base(c)[10] # oid[10]
  <2>1. <<2, 8, 10, 16>>[c] \in {2, 8, 10, 16}
    BY ColumnNumbers
  <2>2. Base(c)[10] \in {2, 8, 10, 16}
    BY <2>1, <1>4
  <2> QED
    BY <2>2, <1>3
<1>6. SubSeq(Base(c), 1, 10) # SubSeq(oid, 1, 10)
  BY <1>3, <1>4, <1>5, CommonPart
<1> QED
  BY <1>4, <1>6 DEF IsStrictPrefix, IsPrefix, oid

\* The numbers of a byte are arcs, and arcs are numbers.
LEMMA ArcsAre == 0..255 \subseteq Arc /\ Arc \subseteq Nat
<1>1. PICK t \in Nat \ {0} : t = TopByte
  BY BerAssumption
<1>2. 0..255 \subseteq 0..(256 * t - 1) /\ 0..(256 * t - 1) \subseteq Nat
  OBVIOUS
<1> QED
  BY <1>1, <1>2 DEF Arc, K

LEMMA RowsTyped ==
    \A r \in Rows : r \in Seq(Arc) /\ r \in Seq(Nat) /\ r # << >>
<1>1. Seq(Arc) \subseteq Seq(Nat)
  BY ArcsAre, SeqMonotonic
<1> QED
  BY <1>1, WalkAssumption

\* Of two rows one comes before the other.
LEMMA LeastOf ==
    ASSUME NEW T \in SUBSET Nat, T # {}
    PROVE  \E m \in T : \A i \in T : ~(i < m)
<1>1. \E m \in T : \A i \in T : ~(<<i, m>> \in OpToRel(<, Nat))
  BY NatLessThanWellFounded, WFMin
<1> QED
  BY <1>1 DEF OpToRel

\* Whether a row comes before another is in the table, too.
LEMMA RowBeforeIs ==
    ASSUME NEW r \in Places, NEW s \in Places
    PROVE  RowBefore[<<r, s>>] = Precedes(r, s)
BY DEF RowBefore

LEMMA PlacesTyped ==
    ASSUME NEW r \in Places
    PROVE  r \in Seq(Nat) /\ Len(r) \in Nat /\ DOMAIN r = 1..Len(r)
<1>1. r \in Seq(Nat)
  BY RowsTyped, EmptySeq DEF Places
<1> QED
  BY <1>1, LenProperties

LEMMA RowsOrdered ==
    ASSUME NEW r \in Places, NEW s \in Places
    PROVE  r = s \/ RowBefore[<<r, s>>] \/ RowBefore[<<s, r>>]
<1>1. r \in Seq(Nat) /\ Len(r) \in Nat /\ DOMAIN r = 1..Len(r)
  BY PlacesTyped
<1>2. s \in Seq(Nat) /\ Len(s) \in Nat /\ DOMAIN s = 1..Len(s)
  BY PlacesTyped
<1>3. SUFFICES r = s \/ Precedes(r, s) \/ Precedes(s, r)
  BY RowBeforeIs
<1> DEFINE T == {i \in DOMAIN r \cap DOMAIN s : r[i] # s[i]}
<1>4. CASE T = {}
  <2>1. \A i \in 1..Len(r) : i <= Len(s) => r[i] = s[i]
    BY <1>1, <1>2, <1>4
  <2>2. CASE Len(r) <= Len(s)
    <3>1. \A i \in 1..Len(r) : r[i] = s[i]
      BY <2>1, <2>2, <1>1, <1>2
    <3>2. SubSeq(r, 1, Len(r)) = SubSeq(s, 1, Len(r))
      BY <3>1, <2>2, <1>1, <1>2, CommonPart
    <3> QED
      BY <3>2, <2>2 DEF Precedes, IsStrictPrefix, IsPrefix
  <2>3. CASE Len(s) <= Len(r)
    <3>1. \A i \in 1..Len(s) : s[i] = r[i]
      BY <2>1, <2>3, <1>1, <1>2
    <3>2. SubSeq(s, 1, Len(s)) = SubSeq(r, 1, Len(s))
      BY <3>1, <2>3, <1>1, <1>2, CommonPart
    <3> QED
      BY <3>2, <2>3 DEF Precedes, IsStrictPrefix, IsPrefix
  <2>4. Len(r) <= Len(s) \/ Len(s) <= Len(r)
    BY <1>1, <1>2
  <2> QED
    BY <2>2, <2>3, <2>4
<1>5. CASE T # {}
  <2>1. T \in SUBSET Nat
    BY <1>1, <1>2
  <2>2. PICK m \in T : \A i \in T : ~(i < m)
    BY <2>1, <1>5, LeastOf
  <2>3. m \in 1..Len(r) /\ m \in 1..Len(s) /\ r[m] # s[m]
    BY <2>2, <1>1, <1>2
  <2>4. /\ m - 1 \in Nat /\ m - 1 <= Len(r) /\ m - 1 <= Len(s)
        /\ \A i \in 1..(m - 1) : i \in 1..Len(r) /\ i \in 1..Len(s) /\ i < m
    BY <2>3, <1>1, <1>2
  <2>5. \A i \in 1..(m - 1) : r[i] = s[i]
    BY <2>2, <2>4, <1>1, <1>2
  <2>6. SubSeq(r, 1, m - 1) = SubSeq(s, 1, m - 1)
    BY <2>4, <2>5, <1>1, <1>2, CommonPart
  <2>7. r[m] \in Nat /\ s[m] \in Nat
    BY <2>3, <1>1, <1>2, ElementOfSeq
  <2>8. r[m] < s[m] \/ s[m] < r[m]
    BY <2>3, <2>7
  <2> QED
    BY <2>3, <2>6, <2>8, <1>1, <1>2 DEF Precedes
<1> QED
  BY <1>4, <1>5

LEMMA NothingBeforeBase ==
    ASSUME NEW r \in Rows
    PROVE  ~RowBefore[<<r, << >> >>]
<1>1. r \in Places /\ << >> \in Places
  BY DEF Places
<1>2. Len(r) \in Nat \ {0}
  BY RowsTyped, EmptySeq
<1>3. DOMAIN << >> = {} /\ Len(<< >>) = 0
  OBVIOUS
<1>4. ~IsStrictPrefix(r, << >>)
  BY <1>2, <1>3 DEF IsStrictPrefix, IsPrefix
<1>5. ~Precedes(r, << >>)
  BY <1>3, <1>4 DEF Precedes
<1> QED
  BY <1>1, <1>5, RowBeforeIs
----------------------------------------------------------------------------
(* What passes between the two.                                            *)

LEMMA Headed ==
    ASSUME NEW s \in Seq(Arc), NEW t \in Seq(Arc), Len(s) >= 2, s[2] = 3
    PROVE  /\ s \o t \in Seq(Arc) /\ Len(s \o t) >= 2 /\ (s \o t)[2] < 40
<1>1. Len(s) \in Nat /\ Len(t) \in Nat /\ 2 \in 1..Len(s)
  BY LenProperties
<1>2. /\ s \o t \in Seq(Arc) /\ Len(s \o t) = Len(s) + Len(t)
      /\ \A i \in 1..Len(s) : (s \o t)[i] = s[i]
  BY Concatenated
<1> QED
  BY <1>1, <1>2

\* The names of the agent's objects begin with 1.3.
LEMMA OidShape ==
    /\ \A c \in Columns, row \in Seq(Arc) :
          Oid(c, row) \in Seq(Arc) /\ Len(Oid(c, row)) >= 2 /\ Oid(c, row)[2] < 40
    /\ LET oid == IfEntry \o <<17, 1>> IN
       oid \in Seq(Arc) /\ Len(oid) >= 2 /\ oid[2] < 40
    /\ oidSysDescr \in Seq(Arc) /\ Len(oidSysDescr) >= 2 /\ oidSysDescr[2] < 40
    /\ oidSysUpTime \in Seq(Arc) /\ Len(oidSysUpTime) >= 2 /\ oidSysUpTime[2] < 40
    /\ oidSysDescr # oidSysUpTime
<1>0. Seq(0..255) \subseteq Seq(Arc)
  BY ArcsAre, SeqMonotonic
<1>1. IfEntry \in Seq(Arc) /\ Len(IfEntry) = 9 /\ IfEntry[2] = 3
  <2>1. IfEntry \in Seq(0..255) /\ Len(IfEntry) = 9 /\ IfEntry[2] = 3
    BY DEF IfEntry
  <2> QED
    BY <1>0, <2>1
<1>2. System \in Seq(Arc) /\ Len(System) = 7 /\ System[2] = 3
  <2>1. System \in Seq(0..255) /\ Len(System) = 7 /\ System[2] = 3
    BY DEF System
  <2> QED
    BY <1>0, <2>1
<1>3. ASSUME NEW c \in Columns, NEW row \in Seq(Arc)
      PROVE  Oid(c, row) \in Seq(Arc) /\ Len(Oid(c, row)) >= 2 /\ Oid(c, row)[2] < 40
  <2> DEFINE last == <<(<<2, 8, 10, 16>>)[c]>>
  <2>1. last \in Seq(Arc)
    <3>1. PICK x \in 0..255 : x = (<<2, 8, 10, 16>>)[c]
      <4>1. c = 1 \/ c = 2 \/ c = 3 \/ c = 4
        BY ColumnNumbers
      <4>2. (<<2, 8, 10, 16>>)[c] \in {2, 8, 10, 16}
        BY <4>1
      <4>3. (<<2, 8, 10, 16>>)[c] \in 0..255
        BY <4>2
      <4> QED
        BY <4>3, Zenon
    <3>2. <<x>> \in Seq(0..255)
      BY OneElement
    <3>3. last \in Seq(0..255)
      BY <3>1, <3>2, Zenon
    <3> QED
      BY <1>0, <3>3
  <2>2. Base(c) = IfEntry \o last
    BY Zenon DEF Base
  <2> HIDE DEF last
  <2>3. Base(c) \in Seq(Arc) /\ Len(Base(c)) = 10
    BY <1>1, <2>1, <2>2, Concatenated, BaseShape
  <2>4. Base(c)[2] = 3
    <3>1. 2 \in 1..Len(IfEntry)
      BY <1>1
    <3>2. \A i \in 1..Len(IfEntry) : (IfEntry \o last)[i] = IfEntry[i]
      BY <1>1, <2>1, Concatenated
    <3>3. (IfEntry \o last)[2] = IfEntry[2]
      BY <3>1, <3>2
    <3> QED
      BY <1>1, <2>2, <3>3
  <2>5. Oid(c, row) = Base(c) \o row
    BY Zenon DEF Oid
  <2>6. Base(c) \in Seq(Arc) /\ Len(Base(c)) >= 2
    BY <2>3
  <2> QED
    BY <2>4, <2>5, <2>6, Headed, Zenon
<1>4. <<17, 1>> \in Seq(Arc) /\ <<1, 0>> \in Seq(Arc) /\ <<3, 0>> \in Seq(Arc)
  <2>1. /\ <<17, 1>> \in Seq(0..255) /\ <<1, 0>> \in Seq(0..255)
        /\ <<3, 0>> \in Seq(0..255)
    OBVIOUS
  <2> QED
    BY <1>0, <2>1
<1>5. LET oid == IfEntry \o <<17, 1>> IN
      oid \in Seq(Arc) /\ Len(oid) >= 2 /\ oid[2] < 40
  <2>1. IfEntry \in Seq(Arc) /\ Len(IfEntry) >= 2 /\ IfEntry[2] = 3
    BY <1>1
  <2> QED
    BY <1>4, <2>1, Headed, Zenon
<1>6. System \in Seq(Arc) /\ Len(System) >= 2 /\ System[2] = 3
  BY <1>2
<1>7. oidSysDescr \in Seq(Arc) /\ Len(oidSysDescr) >= 2 /\ oidSysDescr[2] < 40
  BY <1>4, <1>6, Headed, Zenon DEF oidSysDescr
<1>8. oidSysUpTime \in Seq(Arc) /\ Len(oidSysUpTime) >= 2 /\ oidSysUpTime[2] < 40
  BY <1>4, <1>6, Headed, Zenon DEF oidSysUpTime
<1>9. oidSysDescr # oidSysUpTime
  <2> DEFINE d == <<1, 0>>
             u == <<3, 0>>
  <2>1. d \in Seq(Arc) /\ u \in Seq(Arc) /\ Len(d) = 2 /\ Len(u) = 2
        /\ d[1] = 1 /\ u[1] = 3
    BY <1>4
  <2> HIDE DEF d, u
  <2>2. 8 \in (Len(System) + 1)..(Len(System) + 2) /\ 8 - Len(System) = 1
    BY <1>2
  <2>3. (System \o d)[8] = d[1] /\ (System \o u)[8] = u[1]
    <3>1. \A i \in (Len(System) + 1)..(Len(System) + Len(d)) :
             (System \o d)[i] = d[i - Len(System)]
      BY <1>2, <2>1, Concatenated
    <3>2. \A i \in (Len(System) + 1)..(Len(System) + Len(u)) :
             (System \o u)[i] = u[i - Len(System)]
      BY <1>2, <2>1, Concatenated
    <3> QED
      BY <2>1, <2>2, <3>1, <3>2
  <2>4. oidSysDescr = System \o d /\ oidSysUpTime = System \o u
    BY Zenon DEF oidSysDescr, oidSysUpTime, d, u
  <2>5. d[1] # u[1]
    BY <2>1
  <2> QED
    BY <2>3, <2>4, <2>5, Zenon
<1> QED
  BY <1>3, <1>5, <1>7, <1>8, <1>9, Zenon

\* What a varbind of a reply is.
Said(vb) ==
    Sayable(vb) /\ (vb.tag \in {tagNull, tagEndOfMibView} => vb.n = 0)

LEMMA Saying ==
    ASSUME NEW oid \in Seq(Arc), Len(oid) >= 2, oid[2] < 40, NEW tag, NEW n,
           \/ tag \in NumberTags /\ n \in Numbers
           \/ tag = tagOctetStr /\ n \in Nat
           \/ tag \in {tagNull, tagEndOfMibView} /\ n = 0
    PROVE  Said(VarBind(oid, tag, n)) /\ VarBind(oid, tag, n).oid = oid
<1> DEFINE vb == VarBind(oid, tag, n)
<1>1. vb.oid = oid /\ vb.tag = tag /\ vb.n = n
  BY DEF VarBind
<1> HIDE DEF vb
<1>2. \/ tag \in NumberTags /\ n \in Numbers
      \/ tag \in OtherTags /\ n \in Nat
  BY DEF OtherTags
<1>3. tag \in {tagNull, tagEndOfMibView} => n = 0
  BY TagNumbers DEF NumberTags
<1>4. Said(vb)
  BY <1>1, <1>2, <1>3 DEF Said, Sayable
<1> QED
  BY <1>1, <1>4 DEF vb

\* A reply has one varbind, or two with different names.
Shown(reply) ==
    /\ reply.status \in {0, 5}
    /\ \/ \E v : Said(v) /\ reply.varbinds = <<v>>
       \/ \E v, w : /\ Said(v) /\ Said(w) /\ v.oid # w.oid
                    /\ reply.varbinds = <<v, w>>

LEMMA ReplyIs ==
    ASSUME NEW status \in {0, 5}, NEW v, Said(v)
    PROVE  Shown(Reply(status, <<v>>))
<1>1. Reply(status, <<v>>).status = status /\ Reply(status, <<v>>).varbinds = <<v>>
  BY DEF Reply
<1> QED
  BY <1>1, Zenon DEF Shown

LEMMA ReplyOfTwo ==
    ASSUME NEW status \in {0, 5}, NEW v, NEW w, Said(v), Said(w), v.oid # w.oid
    PROVE  Shown(Reply(status, <<v, w>>))
<1>1. /\ Reply(status, <<v, w>>).status = status
      /\ Reply(status, <<v, w>>).varbinds = <<v, w>>
  BY DEF Reply
<1> QED
  BY <1>1, Zenon DEF Shown

LEMMA SystemShown == Shown(SystemReply) /\ Shown(Refusal(SystemOids))
<1>1. /\ oidSysDescr \in Seq(Arc) /\ Len(oidSysDescr) >= 2 /\ oidSysDescr[2] < 40
      /\ oidSysUpTime \in Seq(Arc) /\ Len(oidSysUpTime) >= 2
      /\ oidSysUpTime[2] < 40 /\ oidSysDescr # oidSysUpTime
  BY OidShape, Zenon
<1>2. NameSize[<< >>] \in Nat /\ Uptime \in Numbers
  BY WalkAssumption
<1>3. tagTimeTicks \in NumberTags /\ tagNull \in {tagNull, tagEndOfMibView}
  BY DEF NumberTags
<1> DEFINE d == VarBind(oidSysDescr, tagOctetStr, NameSize[<< >>])
           u == VarBind(oidSysUpTime, tagTimeTicks, Uptime)
           dn == VarBind(oidSysDescr, tagNull, 0)
           un == VarBind(oidSysUpTime, tagNull, 0)
<1>4. Said(d) /\ d.oid = oidSysDescr
  BY <1>1, <1>2, Saying
<1>5. Said(u) /\ u.oid = oidSysUpTime
  BY <1>1, <1>2, <1>3, Saying
<1>6. Said(dn) /\ dn.oid = oidSysDescr
  BY <1>1, <1>3, Saying
<1>7. Said(un) /\ un.oid = oidSysUpTime
  BY <1>1, <1>3, Saying
<1>8. Asking(SystemOids) = <<dn, un>>
  <2>1. /\ DOMAIN SystemOids = {1, 2} /\ SystemOids[1] = oidSysDescr
        /\ SystemOids[2] = oidSysUpTime
    BY DEF SystemOids
  <2>2. ASSUME NEW F, NEW a, NEW b, a = F[1], b = F[2], F = [i \in {1, 2} |-> F[i]]
        PROVE  F = <<a, b>>
    BY <2>2
  <2> DEFINE F == Asking(SystemOids)
  <2>3. F = [i \in {1, 2} |-> VarBind(SystemOids[i], tagNull, 0)]
    BY <2>1, Zenon DEF Asking
  <2>4. dn = VarBind(SystemOids[1], tagNull, 0) /\ un = VarBind(SystemOids[2], tagNull, 0)
    BY <2>1, Zenon
  <2> HIDE DEF F, dn, un
  <2>5. F[1] = dn /\ F[2] = un /\ F = [i \in {1, 2} |-> F[i]]
    BY <2>3, <2>4
  <2> QED
    BY <2>2, <2>5 DEF F
<1> HIDE DEF d, u, dn, un
<1>9. Shown(Reply(0, <<d, u>>)) /\ Shown(Reply(5, <<dn, un>>))
  BY <1>1, <1>4, <1>5, <1>6, <1>7, ReplyOfTwo
<1> QED
  BY <1>8, <1>9, Zenon DEF SystemReply, Refusal, d, u

LEMMA RepliesShown == \A reply \in Replies : Shown(reply)
<1>1. \A oid \in Questions : oid \in Seq(Arc) /\ Len(oid) >= 2 /\ oid[2] < 40
  <2> SUFFICES ASSUME NEW oid \in Questions
               PROVE  oid \in Seq(Arc) /\ Len(oid) >= 2 /\ oid[2] < 40
    OBVIOUS
  <2>1. PICK c \in Columns, row \in Places : oid = Oid(c, row)
    BY DEF Questions
  <2>2. row \in Seq(Arc)
    BY RowsTyped, EmptySeq DEF Places
  <2> QED
    BY <2>1, <2>2, OidShape, Zenon
<1>2. tagCounter32 \in NumberTags /\ tagInteger \in NumberTags
      /\ tagEndOfMibView \in {tagNull, tagEndOfMibView}
      /\ tagNull \in {tagNull, tagEndOfMibView}
  BY DEF NumberTags
<1>3. 0 \in Numbers /\ 1 \in Numbers /\ 2 \in Numbers
  <2>1. PICK t \in Nat \ {0} : t = TopByte
    BY BerAssumption
  <2>2. /\ 0 \in (-128 * t)..(128 * t - 1) /\ 1 \in (-128 * t)..(128 * t - 1)
        /\ 2 \in (-128 * t)..(128 * t - 1)
    OBVIOUS
  <2> QED
    BY <2>1, <2>2 DEF Numbers
<1>4. Shown(Beyond)
  <2> DEFINE oid == IfEntry \o <<17, 1>>
  <2>1. oid \in Seq(Arc) /\ Len(oid) >= 2 /\ oid[2] < 40
    BY OidShape, Zenon
  <2> HIDE DEF oid
  <2>2. Said(VarBind(oid, tagCounter32, 0))
    BY <1>2, <1>3, <2>1, Saying
  <2>3. Shown(Reply(0, <<VarBind(oid, tagCounter32, 0)>>))
    BY <2>2, ReplyIs
  <2> QED
    BY <2>3, Zenon DEF Beyond, oid
<1>5. ASSUME NEW oid \in Questions PROVE Shown(EndOfMibView(oid))
  <2>1. Said(VarBind(oid, tagEndOfMibView, 0))
    BY <1>1, <1>2, Saying
  <2> QED
    BY <2>1, ReplyIs DEF EndOfMibView
<1>6. ASSUME NEW oid \in Questions PROVE Shown(Refusal(<<oid>>))
  <2>1. Said(VarBind(oid, tagNull, 0))
    BY <1>1, <1>2, Saying
  <2>2. Asking(<<oid>>) = <<VarBind(oid, tagNull, 0)>>
    BY DEF Asking
  <2> QED
    BY <2>1, <2>2, ReplyIs DEF Refusal
<1>7. ASSUME NEW c \in Columns, NEW row \in Rows, NEW up \in BOOLEAN, NEW o \in Octets
      PROVE  Shown(Reply(0, <<Cell(c, row, up, o)>>))
  <2>1. /\ Oid(c, row) \in Seq(Arc) /\ Len(Oid(c, row)) >= 2
        /\ Oid(c, row)[2] < 40
    BY OidShape, RowsTyped
  <2>2. o \in Numbers /\ NameSize[row] \in Nat
    BY WalkAssumption
  <2>3. Said(Cell(c, row, up, o))
    <3>1. CASE c = descr
      <4>1. Said(VarBind(Oid(c, row), tagOctetStr, NameSize[row]))
        BY <2>1, <2>2, Saying
      <4>2. c # operStatus
        BY <3>1, ColumnNumbers
      <4>3. Cell(c, row, up, o) = VarBind(Oid(c, row), tagOctetStr, NameSize[row])
        BY <3>1, <4>2, Zenon DEF Cell
      <4> QED
        BY <4>1, <4>3
    <3>2. CASE c = operStatus
      <4> DEFINE n == IF up THEN 1 ELSE 2
      <4>1. n \in Numbers
        BY <1>3
      <4> HIDE DEF n
      <4>2. Said(VarBind(Oid(c, row), tagInteger, n))
        BY <1>2, <2>1, <4>1, Saying
      <4>3. c # descr
        BY <3>2, ColumnNumbers
      <4>4. Cell(c, row, up, o) = VarBind(Oid(c, row), tagInteger, n)
        BY <3>2, <4>3, Zenon DEF Cell, n
      <4> QED
        BY <4>2, <4>4
    <3>3. CASE c # descr /\ c # operStatus
      <4>1. Said(VarBind(Oid(c, row), tagCounter32, o))
        BY <1>2, <2>1, <2>2, Saying
      <4>2. Cell(c, row, up, o) = VarBind(Oid(c, row), tagCounter32, o)
        BY <3>3, Zenon DEF Cell
      <4> QED
        BY <4>1, <4>2
    <3> QED
      BY <3>1, <3>2, <3>3
  <2> QED
    BY <2>3, ReplyIs
<1> QED
  <2> SUFFICES ASSUME NEW reply \in Replies PROVE Shown(reply)
    OBVIOUS
  <2>1. \/ reply \in {SystemReply, Refusal(SystemOids), Beyond}
        \/ \E oid \in Questions : reply = EndOfMibView(oid)
        \/ \E oid \in Questions : reply = Refusal(<<oid>>)
        \/ \E c \in Columns, row \in Rows, up \in BOOLEAN, o \in Octets :
              reply = Reply(0, <<Cell(c, row, up, o)>>)
    BY DEF Replies
  <2> QED
    BY SystemShown, <1>4, <1>5, <1>6, <1>7, <2>1, Zenon

\* What the client makes of a reply: an error is an error, and anything else is
\* read as it was said.
LEMMA ReplyRead ==
    ASSUME NEW reply \in Replies, NEW got \in Read[reply]
    PROVE  /\ got.ok <=> reply.status = 0
           /\ got.ok => Tells(got.results, reply.varbinds)
<1>1. got \in Received(reply)
  BY DEF Read
<1>2. PICK form \in LengthForms, id \in RequestIds :
         got = parseResponse(MessageAs(form, tagGetResponse, id, reply.status,
                                       reply.varbinds))
  BY <1>1 DEF Received
<1>3. form \in Nat /\ id \in Numbers
  <2>1. LengthForms \subseteq 0..126 /\ RequestIds \subseteq Numbers
    BY MessageAssumption, Zenon
  <2>2. form \in 0..126 /\ id \in Numbers
    BY <2>1, Zenon
  <2> QED
    BY <2>2
<1>4. Shown(reply)
  BY RepliesShown
<1> DEFINE status == reply.status
           varbinds == reply.varbinds
<1>5. status \in Numbers
  BY <1>4, SmallNumbers DEF Shown
<1>6. /\ VarBindsAs(form, varbinds) \in Seq(Nat)
      /\ Countable(VarBindsAs(form, varbinds)) =>
            \E results : /\ parseVarbinds(VarBindsAs(form, varbinds)) = Answer(results)
                         /\ Tells(results, varbinds)
  <2>1. CASE \E v : Said(v) /\ varbinds = <<v>>
    <3>1. PICK v : Said(v) /\ varbinds = <<v>>
      BY <2>1
    <3>2. Sayable(v)
      BY <3>1 DEF Said
    <3> HIDE DEF varbinds
    <3>3. /\ VarBindsAs(form, <<v>>) \in Seq(Nat)
          /\ Countable(VarBindsAs(form, <<v>>)) =>
                \E results : /\ parseVarbinds(VarBindsAs(form, <<v>>)) = Answer(results)
                             /\ Tells(results, <<v>>)
      BY <1>3, <3>2, OneParsed, Zenon
    <3> QED
      BY <3>1, <3>3, Zenon
  <2>2. CASE \E v, w : Said(v) /\ Said(w) /\ v.oid # w.oid /\ varbinds = <<v, w>>
    <3>1. PICK v, w : Said(v) /\ Said(w) /\ v.oid # w.oid /\ varbinds = <<v, w>>
      BY <2>2
    <3>2. Sayable(v) /\ Sayable(w)
      BY <3>1 DEF Said
    <3> HIDE DEF varbinds
    <3>3. /\ VarBindsAs(form, <<v, w>>) \in Seq(Nat)
          /\ Countable(VarBindsAs(form, <<v, w>>)) =>
                \E results :
                   /\ parseVarbinds(VarBindsAs(form, <<v, w>>)) = Answer(results)
                   /\ Tells(results, <<v, w>>)
      BY <1>3, <3>1, <3>2, TwoParsed, Zenon
    <3> QED
      BY <3>1, <3>3, Zenon
  <2> QED
    BY <1>4, <2>1, <2>2, Zenon DEF Shown
<1>10. Len(MessageAs(form, tagGetResponse, id, status, varbinds)) < 128 * TopByte
  BY AgentAssumption, Zenon
<1> HIDE DEF status, varbinds
<1>7. got = IF status # 0 THEN Malformed
            ELSE parseVarbinds(VarBindsAs(form, varbinds))
  <2>1. parseResponse(MessageAs(form, tagGetResponse, id, status, varbinds)) =
           IF status # 0 THEN Malformed
           ELSE parseVarbinds(VarBindsAs(form, varbinds))
    BY <1>3, <1>5, <1>6, <1>10, ResponseRead
  <2> QED
    BY <1>2, <2>1, Zenon DEF status, varbinds
<1>8. CASE status # 0
  <2>1. got = Malformed
    BY <1>7, <1>8, Zenon
  <2>2. got.ok = FALSE
    BY <2>1 DEF Malformed
  <2> QED
    BY <1>8, <2>2 DEF status
<1>9. CASE status = 0
  <2>1. PICK results : /\ parseVarbinds(VarBindsAs(form, varbinds)) = Answer(results)
                       /\ Tells(results, varbinds)
    <3>1. Countable(VarBindsAs(form, varbinds))
      BY <1>3, <1>5, <1>6, <1>10, ResponseRead
    <3> QED
      BY <1>6, <3>1
  <2>2. got = Answer(results)
    BY <1>7, <1>9, <2>1, Zenon
  <2>3. got.ok = TRUE /\ got.results = results
    BY <2>2 DEF Answer
  <2> QED
    BY <1>9, <2>1, <2>3 DEF status, varbinds
<1> QED
  BY <1>8, <1>9

LEMMA SaidIs ==
    ASSUME NEW reply \in Replies, NEW i \in DOMAIN reply.varbinds
    PROVE  Said(reply.varbinds[i])
<1>1. Shown(reply)
  BY RepliesShown
<1>2. CASE \E v : Said(v) /\ reply.varbinds = <<v>>
  BY <1>2
<1>3. CASE \E v, w : /\ Said(v) /\ Said(w) /\ v.oid # w.oid
                     /\ reply.varbinds = <<v, w>>
  <2>1. PICK v, w : Said(v) /\ Said(w) /\ reply.varbinds = <<v, w>>
    BY <1>3
  <2>2. DOMAIN <<v, w>> = {1, 2} /\ <<v, w>>[1] = v /\ <<v, w>>[2] = w
    OBVIOUS
  <2>3. i = 1 \/ i = 2
    BY <2>1, <2>2
  <2> QED
    BY <2>1, <2>2, <2>3
<1> QED
  BY <1>1, <1>2, <1>3 DEF Shown

\* client.go's parseResponse and ber.go, against an agent of the standard:
\* whatever the lengths, arcs and numbers, nothing else is read than was said.
THEOREM Codec == CodecFaithful
<1> SUFFICES ASSUME NEW reply \in Replies, NEW got \in Read[reply], got.ok
             PROVE  /\ reply.status = 0
                    /\ DOMAIN got.results =
                          {reply.varbinds[i].oid : i \in DOMAIN reply.varbinds}
                    /\ \A i \in DOMAIN reply.varbinds :
                          LET said == reply.varbinds[i]
                              value == got.results[said.oid] IN
                          /\ value.int = IF said.tag = tagOctetStr THEN 0 ELSE said.n
                          /\ value.kind = "end-of-mib-view"
                                <=> said.tag = tagEndOfMibView
  BY DEF CodecFaithful
<1>1. reply.status = 0 /\ Tells(got.results, reply.varbinds)
  BY ReplyRead
<1>2. ASSUME NEW i \in DOMAIN reply.varbinds
      PROVE  LET said == reply.varbinds[i]
                 value == got.results[said.oid] IN
             /\ value.int = IF said.tag = tagOctetStr THEN 0 ELSE said.n
             /\ value.kind = "end-of-mib-view" <=> said.tag = tagEndOfMibView
  <2> DEFINE said == reply.varbinds[i]
             value == got.results[said.oid]
  <2>1. Said(said)
    BY SaidIs
  <2>2. IsSaid(value, said)
    BY <1>1, Zenon DEF Tells
  <2> HIDE DEF said, value
  <2>3. /\ value.int = IF said.tag \in NumberTags THEN said.n ELSE 0
        /\ value.kind = "end-of-mib-view" <=> said.tag = tagEndOfMibView
    BY <2>2, Zenon DEF IsSaid
  <2>4. /\ said.tag \in NumberTags \/ said.tag \in OtherTags
        /\ said.tag \in {tagNull, tagEndOfMibView} => said.n = 0
    BY <2>1 DEF Said, Sayable
  <2>5. value.int = IF said.tag = tagOctetStr THEN 0 ELSE said.n
    <3>1. CASE said.tag \in NumberTags
      <4>1. said.tag # tagOctetStr
        BY <3>1, TagNumbers DEF NumberTags
      <4> QED
        BY <2>3, <3>1, <4>1, Zenon
    <3>2. CASE said.tag \notin NumberTags
      <4>1. said.tag # tagOctetStr => said.n = 0
        BY <2>4, <3>2 DEF OtherTags
      <4>2. value.int = 0
        BY <2>3, <3>2, Zenon
      <4> QED
        BY <4>1, <4>2
    <3> QED
      BY <3>1, <3>2
  <2> QED
    BY <2>3, <2>5, Zenon DEF said, value
<1> QED
  BY <1>1, <1>2, Zenon DEF Tells
----------------------------------------------------------------------------
\* What a GetNext does, whichever bytes it is read from.

\* The number in a column of a row.
CellNumber(c, row) ==
    CASE c = descr -> 0
      [] c = operStatus -> IF row.up THEN 1 ELSE 2
      [] OTHER -> row.octets

Fails == \E why : Return(Failed(why))
Enters(r, n) == \E v : v.int = n /\ WalkEntry(r, v)
HistoryStays == UNCHANGED <<table, always, seen, atStart, changes>>

\* A reply with one name is read as that, or as an error.
LEMMA OneName ==
    ASSUME CodecFaithful, NEW vb, NEW reply \in Replies,
           reply.varbinds = <<vb>>,
           NEW got \in Read[reply], got.ok
    PROVE  /\ reply.status = 0
           /\ DOMAIN got.results = {vb.oid}
           /\ got.results[vb.oid].int = IF vb.tag = tagOctetStr THEN 0 ELSE vb.n
           /\ got.results[vb.oid].kind = "end-of-mib-view"
                 <=> vb.tag = tagEndOfMibView
<1>1. DOMAIN reply.varbinds = {1} /\ reply.varbinds[1] = vb
  OBVIOUS
<1>2. /\ reply.status = 0
      /\ DOMAIN got.results =
            {reply.varbinds[i].oid : i \in DOMAIN reply.varbinds}
      /\ \A i \in DOMAIN reply.varbinds :
            LET said == reply.varbinds[i]
                value == got.results[said.oid] IN
            /\ value.int = IF said.tag = tagOctetStr THEN 0 ELSE said.n
            /\ value.kind = "end-of-mib-view" <=> said.tag = tagEndOfMibView
  BY DEF CodecFaithful
<1> QED
  BY <1>1, <1>2

\* A row that is said enters the results of its own column, or ends the walk of
\* another one.
LEMMA CellAnswer ==
    ASSUME CodecFaithful, WalkTypeOK,
           NEW d \in Columns, NEW r \in Rows, NEW row \in Interface,
           GetNext(Reply(0, <<Cell(d, r, row.up, row.octets)>>))
    PROVE  \/ Fails
           \/ d # column /\ WalkEnds
           \/ d = column /\ Enters(r, CellNumber(d, row))
<1> DEFINE vb == Cell(d, r, row.up, row.octets)
           reply == Reply(0, <<vb>>)
<1>1. reply \in Replies /\ reply.varbinds = <<vb>>
  BY DEF Replies, Interface, Reply
<1>2. /\ vb.oid = Oid(d, r) /\ vb.tag # tagEndOfMibView
      /\ (IF vb.tag = tagOctetStr THEN 0 ELSE vb.n) = CellNumber(d, row)
  BY ColumnNumbers DEF Cell, VarBind, CellNumber, tagEndOfMibView, tagOctetStr,
     tagInteger, tagCounter32
<1> HIDE DEF vb, reply
<1>3. GetNext(reply)
  BY DEF reply, vb
<1>4. PICK got \in Read[reply] :
          IF ~got.ok THEN Return(NotRead(reply))
          ELSE IF DOMAIN got.results = {} THEN Return(Failed("empty"))
          ELSE \E next \in DOMAIN got.results :
                  IF InSubtree(next, got.results[next])
                  THEN WalkEntry(From(next, Len(Base(column)) + 1),
                                 got.results[next])
                  ELSE WalkEnds
  BY <1>3 DEF GetNext
<1>5. CASE ~got.ok
  BY <1>4, <1>5 DEF NotRead, Fails
<1>6. CASE got.ok
  <2> DEFINE value == got.results[Oid(d, r)]
  <2>1. /\ DOMAIN got.results = {Oid(d, r)} /\ value.int = CellNumber(d, row)
        /\ value.kind # "end-of-mib-view"
    BY <1>1, <1>2, <1>6, OneName
  <2>2. IF InSubtree(Oid(d, r), value)
        THEN WalkEntry(From(Oid(d, r), Len(Base(column)) + 1), value)
        ELSE WalkEnds
    BY <2>1, <1>4, <1>6
  <2> HIDE DEF value
  <2>3. column \in Columns /\ r \in Seq(Nat) /\ r # << >>
    BY RowsTyped DEF WalkTypeOK
  <2>4. CASE d = column
    <3>1. From(Oid(d, r), Len(Base(column)) + 1) = r
      BY <2>3, <2>4, Subtree
    <3>2. InSubtree(Oid(d, r), value)
      BY <2>1, <2>3, <2>4, InOwnSubtree DEF InSubtree
    <3> QED
      BY <2>1, <2>2, <2>4, <3>1, <3>2 DEF Enters
  <2>5. CASE d # column
    BY <2>2, <2>3, <2>5, Subtree DEF InSubtree
  <2> QED
    BY <2>4, <2>5
<1> QED
  BY <1>5, <1>6

\* The end of what the agent has, or of the table, ends the walk.
LEMMA EndAnswer ==
    ASSUME CodecFaithful, WalkTypeOK,
           NEW reply \in {EndOfMibView(Oid(column, current)), Beyond},
           GetNext(reply)
    PROVE  Fails \/ WalkEnds
<1>1. column \in Columns /\ current \in Places
  BY DEF WalkTypeOK
<1>2. Oid(column, current) \in Questions
  BY <1>1 DEF Questions
<1>3. \E vb : /\ reply.varbinds = <<vb>>
              /\ \/ vb.tag = tagEndOfMibView
                 \/ vb.oid = IfEntry \o <<17, 1>>
  BY DEF EndOfMibView, Beyond, Reply, VarBind
<1>4. PICK vb : /\ reply.varbinds = <<vb>>
                /\ \/ vb.tag = tagEndOfMibView
                   \/ vb.oid = IfEntry \o <<17, 1>>
  BY <1>3
<1>5. reply \in Replies
  BY <1>2 DEF Replies
<1>6. PICK got \in Read[reply] :
          IF ~got.ok THEN Return(NotRead(reply))
          ELSE IF DOMAIN got.results = {} THEN Return(Failed("empty"))
          ELSE \E next \in DOMAIN got.results :
                  IF InSubtree(next, got.results[next])
                  THEN WalkEntry(From(next, Len(Base(column)) + 1),
                                 got.results[next])
                  ELSE WalkEnds
  BY DEF GetNext
<1>7. CASE ~got.ok
  BY <1>6, <1>7 DEF NotRead, Fails
<1>8. CASE got.ok
  <2>1. /\ DOMAIN got.results = {vb.oid}
        /\ got.results[vb.oid].kind = "end-of-mib-view"
              <=> vb.tag = tagEndOfMibView
    BY <1>4, <1>5, <1>8, OneName
  <2>2. ~InSubtree(vb.oid, got.results[vb.oid])
    BY <2>1, <1>1, <1>4, NotInSubtree DEF InSubtree
  <2> QED
    BY <2>1, <2>2, <1>6, <1>8
<1> QED
  BY <1>7, <1>8

\* An error is never read as an answer.
LEMMA RefusalFails ==
    ASSUME CodecFaithful, WalkTypeOK, GetNext(Refusal(<<Oid(column, current)>>))
    PROVE  Fails
<1> DEFINE reply == Refusal(<<Oid(column, current)>>)
<1>1. Oid(column, current) \in Questions
  BY DEF Questions, WalkTypeOK
<1>2. reply \in Replies
  BY <1>1 DEF Replies
<1>3. reply.status = 5
  BY DEF Refusal, Reply
<1> HIDE DEF reply
<1>4. \A got \in Read[reply] : ~got.ok
  BY <1>2, <1>3 DEF CodecFaithful
<1>5. GetNext(reply)
  BY DEF reply
<1> QED
  BY <1>4, <1>5 DEF GetNext, NotRead, Fails

\* What can come of asking for the row after the current one: with an orderly
\* agent it is the next one that is there, and the walk ends only after the last.
LEMMA NextAnswer ==
    ASSUME CodecFaithful, WalkTypeOK,
           NEW reply \in GetNextReplies(column, current), GetNext(reply)
    PROVE  \/ Fails
           \/ /\ WalkEnds
              /\ Orderly => \A s \in DOMAIN table : ~RowBefore[<<current, s>>]
           \/ \E r \in Rows, n \in Nat :
                 /\ Enters(r, n)
                 /\ Orderly => /\ r \in DOMAIN table
                               /\ n = CellNumber(column, table[r])
                               /\ \A s \in DOMAIN table :
                                     RowBefore[<<current, s>>]
                                         => ~RowBefore[<<s, r>>]
<1>1. /\ column \in Columns /\ current \in Places
      /\ \A i \in DOMAIN table : i \in Rows /\ table[i] \in Interface
  BY DEF WalkTypeOK
<1>2. \A d \in Columns, row \in Interface : CellNumber(d, row) \in Nat
  BY WalkAssumption DEF CellNumber, Interface
<1>3. CASE ~Orderly
  <2>1. CASE reply = EndOfMibView(Oid(column, current))
    BY <2>1, <1>3, EndAnswer
  <2>2. ASSUME NEW d \in Columns, NEW r \in Rows,
               reply = Reply(0, <<Cell(d, r, TRUE, 0)>>)
        PROVE  Fails \/ WalkEnds \/ \E n \in Nat : Enters(r, n)
    <3> DEFINE row == [up |-> TRUE, octets |-> 0]
    <3>1. row \in Interface /\ row.up = TRUE /\ row.octets = 0
      BY WalkAssumption DEF Interface
    <3> HIDE DEF row
    <3>2. GetNext(Reply(0, <<Cell(d, r, row.up, row.octets)>>))
      BY <2>2, <3>1
    <3> QED
      BY <3>1, <3>2, <1>2, CellAnswer
  <2>3. \/ reply = EndOfMibView(Oid(column, current))
        \/ \E d \in Columns, r \in Rows :
              reply = Reply(0, <<Cell(d, r, TRUE, 0)>>)
    <3> DEFINE said(o) == Reply(0, <<Cell(o[1], o[2], TRUE, 0)>>)
               S == Columns \X Rows
    <3>1. reply \in {said(o) : o \in S} \cup {EndOfMibView(Oid(column, current))}
      BY <1>3 DEF GetNextReplies
    <3> HIDE DEF said
    <3>2. \/ reply = EndOfMibView(Oid(column, current))
          \/ \E o \in S : reply = said(o)
      BY <3>1
    <3> QED
      BY <3>2 DEF said
  <2> QED
    BY <2>1, <2>2, <2>3, <1>3
<1>4. CASE Orderly
  <2> DEFINE later == {o \in Columns \X DOMAIN table :
                          Before(<<column, current>>, o)}
  <2>1. \A s \in DOMAIN table : RowBefore[<<current, s>>]
                                    => <<column, s>> \in later
    BY <1>1 DEF Before
  <2>2. \/ later = {} /\ reply \in {EndOfMibView(Oid(column, current)), Beyond}
        \/ \E o \in later :
              /\ \A p \in later : ~Before(p, o)
              /\ reply = Reply(0, <<Cell(o[1], o[2], table[o[2]].up,
                                        table[o[2]].octets)>>)
    <3> DEFINE next == {o \in later : \A p \in later : ~Before(p, o)}
               said(o) == Reply(0, <<Cell(o[1], o[2], table[o[2]].up,
                                          table[o[2]].octets)>>)
    <3>1. GetNextReplies(column, current) =
             IF later = {} THEN {EndOfMibView(Oid(column, current)), Beyond}
             ELSE {said(o) : o \in next}
      BY <1>4 DEF GetNextReplies
    <3>2. reply \in IF later = {} THEN {EndOfMibView(Oid(column, current)), Beyond}
                    ELSE {said(o) : o \in next}
      BY <3>1
    <3> HIDE DEF later, said
    <3>3. CASE later = {}
      BY <3>2, <3>3
    <3>4. CASE later # {}
      <4>1. PICK o \in next : reply = said(o)
        BY <3>2, <3>4
      <4> QED
        BY <4>1 DEF said
    <3> QED
      BY <3>3, <3>4
  <2>3. CASE later = {} /\ reply \in {EndOfMibView(Oid(column, current)), Beyond}
    BY <2>1, <2>3, EndAnswer
  <2>4. ASSUME NEW o \in later, \A p \in later : ~Before(p, o),
               reply = Reply(0, <<Cell(o[1], o[2], table[o[2]].up,
                                       table[o[2]].octets)>>)
        PROVE  \/ Fails
               \/ /\ WalkEnds
                  /\ \A s \in DOMAIN table : ~RowBefore[<<current, s>>]
               \/ \E r \in Rows, n \in Nat :
                     /\ Enters(r, n) /\ r \in DOMAIN table
                     /\ n = CellNumber(column, table[r])
                     /\ \A s \in DOMAIN table : RowBefore[<<current, s>>]
                           => ~RowBefore[<<s, r>>]
    <3> DEFINE d == o[1]
               r == o[2]
    <3>1. d \in Columns /\ r \in DOMAIN table /\ r \in Rows
          /\ table[r] \in Interface /\ Before(<<column, current>>, o)
      BY <1>1
    <3>2. column < d \/ d = column
      BY <3>1 DEF Before
    <3>3. \A s \in DOMAIN table : RowBefore[<<current, s>>] =>
             ~(column < d) /\ ~(column = d /\ RowBefore[<<s, r>>])
      <4> SUFFICES ASSUME NEW s \in DOMAIN table, RowBefore[<<current, s>>]
                   PROVE  ~(column < d) /\ ~(column = d /\ RowBefore[<<s, r>>])
        OBVIOUS
      <4>1. ~Before(<<column, s>>, o)
        BY <2>1, <2>4
      <4> QED
        BY <4>1 DEF Before
    <3>4. GetNext(Reply(0, <<Cell(d, r, table[r].up, table[r].octets)>>))
      BY <2>4
    <3> HIDE DEF d, r
    <3>5. \/ Fails
          \/ d # column /\ WalkEnds
          \/ d = column /\ Enters(r, CellNumber(d, table[r]))
      BY <3>1, <3>4, CellAnswer
    <3>6. CASE d = column
      BY <3>1, <3>3, <3>5, <3>6, <1>2
    <3>7. CASE d # column
      BY <3>2, <3>3, <3>5, <3>7
    <3> QED
      BY <3>6, <3>7
  <2> QED
    BY <2>2, <2>3, <2>4
<1> QED
  BY <1>3, <1>4
----------------------------------------------------------------------------
\* Types.

TypeInv ==
    /\ WalkTypeOK
    /\ DOMAIN found = Columns
    /\ at # "walk" => column = descr /\ current = << >>

LEMMA LimitTyped == WalkLimit \in Nat /\ MaxChanges \in Nat /\ IsFiniteSet(Rows)
BY WalkAssumption

LEMMA TypeInit == WalkInit => TypeInv
<1> SUFFICES ASSUME WalkInit PROVE TypeInv
  OBVIOUS
<1>1. PICK rows \in SUBSET Rows : table \in [rows -> NewInterface]
  BY DEF WalkInit
<1>2. NewInterface \subseteq Interface
  BY WalkAssumption DEF NewInterface, Interface
<1>3. DOMAIN table \subseteq Rows /\ \A i \in DOMAIN table : table[i] \in Interface
  BY <1>1, <1>2
<1>4. /\ DOMAIN found = Columns
      /\ \A c \in Columns : found[c] = << >>
  BY DEF WalkInit, NoResults
<1>5. DOMAIN << >> = {} /\ Cardinality({}) = 0
  BY FS_EmptySet
<1>6. WalkTypeOK
  BY <1>3, <1>4, <1>5, LimitTyped, ColumnNumbers DEF WalkTypeOK, WalkInit, Places
<1> QED
  BY <1>4, <1>6 DEF TypeInv, WalkInit

LEMMA ReturnTyped ==
    ASSUME TypeInv, NEW result, Return(result), HistoryStays
    PROVE  TypeInv'
<1>1. /\ DOMAIN found' = Columns
      /\ \A c \in Columns : found'[c] = << >>
  BY DEF Return, NoResults
<1>2. DOMAIN << >> = {} /\ Cardinality({}) = 0
  BY FS_EmptySet
<1>3. WalkTypeOK'
  BY <1>1, <1>2, LimitTyped, ColumnNumbers
  DEF TypeInv, WalkTypeOK, Return, HistoryStays, Places
<1> QED
  BY <1>1, <1>3 DEF TypeInv, Return

LEMMA EntersTyped ==
    ASSUME TypeInv, at = "walk", NEW r \in Rows, NEW n, Enters(r, n),
           HistoryStays
    PROVE  TypeInv'
<1>1. PICK v : WalkEntry(r, v)
  BY DEF Enters
<1> DEFINE results == With(found[column], r, v.int)
<1>2. DOMAIN results = DOMAIN found[column] \cup {r}
  BY DEF With
<1>3. column \in Columns /\ DOMAIN found[column] \subseteq Rows
  BY DEF TypeInv, WalkTypeOK
<1>4. DOMAIN results \subseteq Rows /\ Cardinality(DOMAIN results) \in Nat
  <2>1. DOMAIN results \subseteq Rows
    BY <1>2, <1>3
  <2>2. IsFiniteSet(DOMAIN results)
    BY <2>1, LimitTyped, FS_Subset
  <2> QED
    BY <2>1, <2>2, FS_CardinalityType
<1> HIDE DEF results
<1>5. CASE Cardinality(DOMAIN results) > WalkLimit
  <2>1. Return(Failed("limit"))
    BY <1>1, <1>5 DEF WalkEntry, results
  <2> QED
    BY <2>1, ReturnTyped
<1>6. CASE ~(Cardinality(DOMAIN results) > WalkLimit)
  <2>1. /\ found' = [found EXCEPT ![column] = results] /\ current' = r
        /\ UNCHANGED <<at, uptime, column, snapshot>>
    BY <1>1, <1>6 DEF WalkEntry, results
  <2>2. Cardinality(DOMAIN results) <= WalkLimit
    BY <1>4, <1>6, LimitTyped
  <2>3. /\ DOMAIN found' = Columns
        /\ \A c \in Columns :
              found'[c] = IF c = column THEN results ELSE found[c]
    BY <2>1 DEF TypeInv
  <2>4. \A c \in Columns :
           /\ DOMAIN found'[c] \subseteq Rows
           /\ Cardinality(DOMAIN found'[c]) <= WalkLimit
           /\ found'[c] # << >> => c <= column
    BY <2>2, <2>3, <1>3, <1>4, ColumnNumbers DEF TypeInv, WalkTypeOK
  <2>5. WalkTypeOK'
    BY <2>1, <2>4 DEF TypeInv, WalkTypeOK, HistoryStays, Places
  <2> QED
    BY <2>1, <2>3, <2>5 DEF TypeInv
<1> QED
  BY <1>5, <1>6

LEMMA EndsTyped ==
    ASSUME TypeInv, at = "walk", WalkEnds, HistoryStays
    PROVE  TypeInv'
<1>1. CASE column = outOctets
  BY <1>1, ReturnTyped DEF WalkEnds
<1>2. CASE column # outOctets
  <2>1. /\ column' = column + 1 /\ current' = << >>
        /\ UNCHANGED <<at, uptime, found, snapshot>>
    BY <1>2 DEF WalkEnds
  <2>2. column' \in Columns /\ \A c \in Columns : c <= column => c <= column'
    BY <2>1, <1>2, ColumnNumbers DEF TypeInv, WalkTypeOK
  <2>3. WalkTypeOK'
    BY <2>1, <2>2 DEF TypeInv, WalkTypeOK, HistoryStays, Places
  <2> QED
    BY <2>1, <2>3 DEF TypeInv
<1> QED
  BY <1>1, <1>2

\* The system is read, or the poll ends.
LEMMA GetSystemDoes ==
    ASSUME NEW reply, GetSystem(reply)
    PROVE  /\ HistoryStays /\ at = "get"
           /\ \/ Fails
              \/ at' = "walk" /\ UNCHANGED <<column, current, found, snapshot>>
BY DEF GetSystem, HistoryStays, NotRead, Fails

\* A poll's step is one of these.
LEMMA PollSteps ==
    ASSUME CodecFaithful, WalkTypeOK, Answered \/ Refused \/ RequestFails
    PROVE  /\ HistoryStays /\ at # "idle"
           /\ \/ Fails
              \/ /\ at = "get" /\ at' = "walk"
                 /\ UNCHANGED <<column, current, found, snapshot>>
              \/ /\ at = "walk" /\ WalkEnds
                 /\ Orderly => \A s \in DOMAIN table : ~RowBefore[<<current, s>>]
              \/ /\ at = "walk"
                 /\ \E r \in Rows, n \in Nat :
                       /\ Enters(r, n)
                       /\ Orderly => /\ r \in DOMAIN table
                                     /\ n = CellNumber(column, table[r])
                                     /\ \A s \in DOMAIN table :
                                           RowBefore[<<current, s>>]
                                               => ~RowBefore[<<s, r>>]
<1>1. ASSUME NEW reply, GetNext(reply) PROVE HistoryStays /\ at = "walk"
  BY <1>1 DEF GetNext, HistoryStays
<1>2. CASE Answered
  <2>1. CASE GetSystem(SystemReply)
    BY <2>1, GetSystemDoes
  <2>2. ASSUME NEW reply \in GetNextReplies(column, current), GetNext(reply)
        PROVE  /\ HistoryStays /\ at = "walk"
               /\ \/ Fails
                  \/ /\ WalkEnds
                     /\ Orderly => \A s \in DOMAIN table :
                                      ~RowBefore[<<current, s>>]
                  \/ \E r \in Rows, n \in Nat :
                        /\ Enters(r, n)
                        /\ Orderly => /\ r \in DOMAIN table
                                      /\ n = CellNumber(column, table[r])
                                      /\ \A s \in DOMAIN table :
                                            RowBefore[<<current, s>>]
                                                => ~RowBefore[<<s, r>>]
    BY <2>2, <1>1, NextAnswer
  <2> QED
    BY <2>1, <2>2, <1>2 DEF Answered
<1>3. CASE Refused
  BY <1>1, <1>3, GetSystemDoes, RefusalFails DEF Refused
<1>4. CASE RequestFails
  BY <1>4 DEF RequestFails, HistoryStays, Fails
<1> QED
  BY <1>2, <1>3, <1>4

\* A row keeps its place in the table, and its octets do not fall, or it goes.
LEMMA TableStep ==
    ASSUME WalkTypeOK, TableChanges
    PROVE  /\ DOMAIN table' \subseteq Rows
           /\ \A i \in DOMAIN table' : table'[i] \in Interface
           /\ \A i \in DOMAIN table \cap DOMAIN table' :
                 table[i].octets <= table'[i].octets
<1>0. /\ DOMAIN table \subseteq Rows
      /\ \A i \in DOMAIN table : table[i] \in Interface
  BY DEF WalkTypeOK
<1>1. \A i \in DOMAIN table : table[i].octets \in Nat /\ table[i].up \in BOOLEAN
                                /\ table[i].octets \in Octets
  BY <1>0, WalkAssumption DEF Interface
<1>2. NewInterface \subseteq Interface
  BY WalkAssumption DEF NewInterface, Interface
<1>3. ASSUME NEW x \in Rows \ DOMAIN table, NEW new \in NewInterface,
             table' = [y \in DOMAIN table \cup {x} |->
                          IF y = x THEN new ELSE table[y]]
      PROVE  /\ DOMAIN table' \subseteq Rows
             /\ \A i \in DOMAIN table' : table'[i] \in Interface
             /\ \A i \in DOMAIN table \cap DOMAIN table' :
                   table[i].octets <= table'[i].octets
  <2>1. DOMAIN table' = DOMAIN table \cup {x}
    BY <1>3
  <2>2. \A i \in DOMAIN table : table'[i] = table[i]
    BY <1>3
  <2>3. table'[x] \in Interface
    BY <1>2, <1>3
  <2> QED
    BY <2>1, <2>2, <2>3, <1>0, <1>1
<1>4. ASSUME NEW x \in DOMAIN table,
             table' = Restrict(table, DOMAIN table \ {x})
      PROVE  /\ DOMAIN table' \subseteq Rows
             /\ \A i \in DOMAIN table' : table'[i] \in Interface
             /\ \A i \in DOMAIN table \cap DOMAIN table' :
                   table[i].octets <= table'[i].octets
  <2>1. /\ DOMAIN table' = DOMAIN table \ {x}
        /\ \A i \in DOMAIN table \ {x} : table'[i] = table[i]
    BY <1>4 DEF Restrict
  <2> QED
    BY <2>1, <1>0, <1>1
<1>5. ASSUME NEW x \in DOMAIN table,
             table' = [table EXCEPT ![x].up = ~@]
      PROVE  /\ DOMAIN table' \subseteq Rows
             /\ \A i \in DOMAIN table' : table'[i] \in Interface
             /\ \A i \in DOMAIN table \cap DOMAIN table' :
                   table[i].octets <= table'[i].octets
  <2> DEFINE b == ~(table[x].up)
  <2>1. b \in BOOLEAN
    OBVIOUS
  <2>2. table' = [table EXCEPT ![x] = [table[x] EXCEPT !.up = b]]
    BY <1>5
  <2> HIDE DEF b
  <2>3. /\ DOMAIN table' = DOMAIN table
        /\ \A i \in DOMAIN table : i # x => table'[i] = table[i]
        /\ table'[x] = [table[x] EXCEPT !.up = b]
    BY <2>2
  <2>4. /\ [table[x] EXCEPT !.up = b] \in Interface
        /\ [table[x] EXCEPT !.up = b].octets = table[x].octets
    BY <2>1, <1>0 DEF Interface
  <2>5. table'[x] \in Interface /\ table'[x].octets = table[x].octets
    BY <2>3, <2>4
  <2>6. /\ DOMAIN table' = DOMAIN table
        /\ \A i \in DOMAIN table : i # x => table'[i] = table[i]
    BY <2>3
  <2>7. /\ table'[x] \in Interface
        /\ table[x].octets <= table'[x].octets
    BY <2>5, <1>1
  <2>8. ASSUME NEW i \in DOMAIN table
        PROVE  table'[i] \in Interface /\ table[i].octets <= table'[i].octets
    <3>1. CASE i = x
      BY <2>7, <3>1
    <3>2. CASE i # x
      BY <2>6, <3>2, <1>0, <1>1
    <3> QED
      BY <3>1, <3>2
  <2> QED
    BY <2>6, <2>8, <1>0
<1>6. ASSUME NEW x \in DOMAIN table, NEW o \in Octets, table[x].octets < o,
             table' = [table EXCEPT ![x].octets = o]
      PROVE  /\ DOMAIN table' \subseteq Rows
             /\ \A i \in DOMAIN table' : table'[i] \in Interface
             /\ \A i \in DOMAIN table \cap DOMAIN table' :
                   table[i].octets <= table'[i].octets
  <2>1. /\ DOMAIN table' = DOMAIN table
        /\ \A i \in DOMAIN table : i # x => table'[i] = table[i]
        /\ table'[x] = [table[x] EXCEPT !.octets = o]
    BY <1>6
  <2>2. /\ [table[x] EXCEPT !.octets = o] \in Interface
        /\ [table[x] EXCEPT !.octets = o].octets = o
    BY <1>0 DEF Interface
  <2>3. o \in Nat
    BY WalkAssumption
  <2>4. table'[x] \in Interface /\ table[x].octets <= table'[x].octets
    BY <2>1, <2>2, <2>3, <1>1, <1>6
  <2>6. /\ DOMAIN table' = DOMAIN table
        /\ \A i \in DOMAIN table : i # x => table'[i] = table[i]
    BY <2>1
  <2>7. /\ table'[x] \in Interface
        /\ table[x].octets <= table'[x].octets
    BY <2>4, <1>1
  <2>8. ASSUME NEW i \in DOMAIN table
        PROVE  table'[i] \in Interface /\ table[i].octets <= table'[i].octets
    <3>1. CASE i = x
      BY <2>7, <3>1
    <3>2. CASE i # x
      BY <2>6, <3>2, <1>0, <1>1
    <3> QED
      BY <3>1, <3>2
  <2> QED
    BY <2>6, <2>8, <1>0
<1> QED
  BY <1>3, <1>4, <1>5, <1>6 DEF TableChanges

LEMMA ChangesTyped ==
    ASSUME TypeInv, TableChanges
    PROVE  TypeInv'
<1>1. /\ DOMAIN table' \subseteq Rows
      /\ \A i \in DOMAIN table' : table'[i] \in Interface
  BY TableStep DEF TypeInv
<1>2. UNCHANGED <<at, uptime, column, current, found, snapshot, atStart>>
  BY DEF TableChanges, client
<1>3. always' \subseteq Rows
  BY DEF TypeInv, WalkTypeOK, TableChanges
<1>4. seen' \subseteq Rows \X BOOLEAN
  <2>1. \A i \in DOMAIN table' : i \in Rows /\ table'[i].up \in BOOLEAN
    BY <1>1 DEF Interface
  <2>2. Sight(table') \subseteq Rows \X BOOLEAN
    BY <2>1 DEF Sight
  <2>3. seen \subseteq Rows \X BOOLEAN
    BY DEF TypeInv, WalkTypeOK
  <2> QED
    BY <2>2, <2>3 DEF TableChanges
<1>5. changes' \in 0..MaxChanges
  BY LimitTyped DEF TypeInv, WalkTypeOK, TableChanges
<1>6. WalkTypeOK'
  BY <1>1, <1>2, <1>3, <1>4, <1>5 DEF TypeInv, WalkTypeOK
<1> QED
  BY <1>2, <1>6 DEF TypeInv

LEMMA BeginTyped ==
    ASSUME TypeInv, BeginPoll
    PROVE  TypeInv'
<1>1. Sight(table) \subseteq Rows \X BOOLEAN
  <2>1. \A i \in DOMAIN table : i \in Rows /\ table[i].up \in BOOLEAN
    BY DEF TypeInv, WalkTypeOK, Interface
  <2> QED
    BY <2>1 DEF Sight
<1>2. \A c \in Columns : found[c] = << >>
  BY DEF TypeInv, WalkTypeOK, BeginPoll
<1>3. UNCHANGED <<table, uptime, column, current, found>> /\ at' = "get"
  BY DEF BeginPoll
<1>4. /\ always' = DOMAIN table /\ DOMAIN atStart' = DOMAIN table
      /\ seen' = Sight(table) /\ changes' = 0
  BY DEF BeginPoll
<1>5. WalkTypeOK'
  BY <1>1, <1>2, <1>3, <1>4, LimitTyped DEF TypeInv, WalkTypeOK
<1> QED
  BY <1>3, <1>5 DEF TypeInv, BeginPoll

LEMMA TypeStep ==
    ASSUME CodecFaithful
    PROVE  TypeInv /\ [WalkNext]_vars => TypeInv'
<1> SUFFICES ASSUME TypeInv, [WalkNext]_vars PROVE TypeInv'
  OBVIOUS
<1>1. CASE UNCHANGED vars
  BY <1>1 DEF vars, client, TypeInv, WalkTypeOK
<1>2. CASE Answered \/ Refused \/ RequestFails
  <2>1. /\ HistoryStays
        /\ \/ Fails
           \/ /\ at = "get" /\ at' = "walk"
              /\ UNCHANGED <<column, current, found, snapshot>>
           \/ at = "walk" /\ WalkEnds
           \/ at = "walk" /\ \E r \in Rows, n \in Nat : Enters(r, n)
    BY <1>2, PollSteps DEF TypeInv
  <2>2. CASE Fails
    BY <2>1, <2>2, ReturnTyped DEF Fails
  <2>3. CASE /\ at = "get" /\ at' = "walk"
             /\ UNCHANGED <<column, current, found, snapshot>>
    BY <2>1, <2>3 DEF TypeInv, WalkTypeOK, HistoryStays
  <2>4. CASE at = "walk" /\ WalkEnds
    BY <2>1, <2>4, EndsTyped
  <2>5. CASE at = "walk" /\ \E r \in Rows, n \in Nat : Enters(r, n)
    BY <2>1, <2>5, EntersTyped
  <2> QED
    BY <2>1, <2>2, <2>3, <2>4, <2>5
<1> QED
  BY <1>1, <1>2, ChangesTyped, BeginTyped DEF WalkNext, Poller

LEMMA Types ==
    ASSUME CodecFaithful
    PROVE  WalkSpec => []TypeInv
BY TypeInit, TypeStep, PTL DEF WalkSpec

\* Whatever an agent answers, in its order or not: a walk holds only rows of its
\* own column, and never more than the limit of client.go's Walk.
THEOREM WalkTyping == WalkSpec => []WalkTypeOK
<1>1. TypeInv => WalkTypeOK
  BY DEF TypeInv
<1>2. WalkSpec => []TypeInv
  BY Codec, Types
<1> QED
  BY <1>1, <1>2, PTL
----------------------------------------------------------------------------
\* What the walks have come by, with an agent that answers in order.

\* The rows there ever since the poll began are in the table still, with
\* counters that have not gone back.
LastingKept ==
    /\ always \subseteq DOMAIN table \cap DOMAIN atStart
    /\ \A i \in always : atStart[i] \in Nat /\ atStart[i] <= table[i].octets

SeenNow ==
    at # "idle" => \A i \in DOMAIN table : <<i, table[i].up>> \in seen

\* A row found was there; a status found was its status; and a counter found of
\* a lasting row was its counter at some time since the poll began.
FoundWasThere ==
    /\ \A i \in DOMAIN found[descr] : \E b \in BOOLEAN : <<i, b>> \in seen
    /\ \A i \in DOMAIN found[operStatus] :
          \/ found[operStatus][i] = 1 /\ <<i, TRUE>> \in seen
          \/ found[operStatus][i] = 2 /\ <<i, FALSE>> \in seen
    /\ \A c \in {inOctets, outOctets} : \A i \in always \cap DOMAIN found[c] :
          found[c][i] \in atStart[i]..table[i].octets

\* A walk leaves no lasting row behind it: those up to the current one were
\* found, and in the columns before this one all were.
WalkedPast ==
    at = "walk" => \A i \in always, c \in Columns :
        c < column \/ (c = column /\ (i = current \/ RowBefore[<<i, current>>]))
            => i \in DOMAIN found[c]

OrderInv ==
    /\ LastingKept
    /\ SeenNow
    /\ FoundWasThere
    /\ WalkedPast
    /\ LastingAreShown
    /\ NoneInvented

LEMMA OrderInit == WalkInit => OrderInv
<1> SUFFICES ASSUME WalkInit PROVE OrderInv
  OBVIOUS
<1>1. /\ always = {} /\ at = "idle" /\ snapshot.ok = FALSE
  BY DEF WalkInit, Failed
<1>2. \A c \in Columns : DOMAIN found[c] = {}
  BY DEF WalkInit, NoResults
<1>3. FoundWasThere
  BY <1>1, <1>2, ColumnNumbers DEF FoundWasThere
<1>4. LastingAreShown /\ NoneInvented
  BY <1>1 DEF LastingAreShown, NoneInvented, PollSucceeded
<1> QED
  BY <1>1, <1>3, <1>4 DEF OrderInv, LastingKept, SeenNow, WalkedPast

\* Nothing is found between polls, and after a failed one nothing is shown.
LEMMA FailsOrder ==
    ASSUME OrderInv, Fails, HistoryStays
    PROVE  OrderInv'
<1>1. PICK why : Return(Failed(why))
  BY DEF Fails
<1>2. /\ at' = "idle" /\ snapshot'.ok = FALSE /\ found' = NoResults
  BY <1>1 DEF Return, Failed
<1>3. \A c \in Columns : DOMAIN found'[c] = {}
  BY <1>2 DEF NoResults
<1>4. FoundWasThere'
  BY <1>3, ColumnNumbers DEF FoundWasThere
<1>5. LastingAreShown' /\ NoneInvented'
  BY <1>2 DEF LastingAreShown, NoneInvented, PollSucceeded
<1>6. LastingKept'
  BY DEF OrderInv, LastingKept, HistoryStays
<1> QED
  BY <1>2, <1>4, <1>5, <1>6 DEF OrderInv, SeenNow, WalkedPast

LEMMA BeginOrder ==
    ASSUME TypeInv, OrderInv, BeginPoll
    PROVE  OrderInv'
<1>1. /\ at = "idle" /\ at' = "get" /\ snapshot'.ok = FALSE
      /\ UNCHANGED <<table, column, current, found>>
      /\ always' = DOMAIN table /\ seen' = Sight(table)
      /\ atStart' = [i \in DOMAIN table |-> table[i].octets]
  BY DEF BeginPoll, Failed
<1>2. \A c \in Columns : DOMAIN found'[c] = {}
  BY <1>1 DEF TypeInv, WalkTypeOK
<1>3. FoundWasThere'
  BY <1>2, ColumnNumbers DEF FoundWasThere
<1>4. LastingKept'
  <2>1. \A i \in DOMAIN table : table[i].octets \in Nat
    BY WalkAssumption DEF TypeInv, WalkTypeOK, Interface
  <2>2. DOMAIN atStart' = DOMAIN table
        /\ \A i \in DOMAIN table : atStart'[i] = table[i].octets
    BY <1>1
  <2>3. \A i \in always' : atStart'[i] \in Nat /\ atStart'[i] <= table'[i].octets
    BY <2>1, <2>2, <1>1
  <2> QED
    BY <2>2, <2>3, <1>1 DEF LastingKept
<1>5. SeenNow'
  BY <1>1 DEF SeenNow, Sight
<1>6. LastingAreShown' /\ NoneInvented' /\ WalkedPast'
  BY <1>1 DEF LastingAreShown, NoneInvented, PollSucceeded, WalkedPast
<1> QED
  BY <1>3, <1>4, <1>5, <1>6 DEF OrderInv

LEMMA ChangesOrder ==
    ASSUME TypeInv, OrderInv, TableChanges
    PROVE  OrderInv'
<1>1. /\ \A i \in DOMAIN table \cap DOMAIN table' :
            table[i].octets <= table'[i].octets
      /\ \A i \in DOMAIN table' : table'[i].octets \in Nat
      /\ \A i \in DOMAIN table : table[i].octets \in Nat
  BY TableStep, WalkAssumption DEF TypeInv, WalkTypeOK, Interface
<1>2. /\ UNCHANGED <<at, uptime, column, current, found, snapshot, atStart>>
      /\ always' = always \cap DOMAIN table'
      /\ seen' = IF at = "idle" THEN seen ELSE seen \cup Sight(table')
  BY DEF TableChanges, client
<1>3. /\ always \subseteq DOMAIN table \cap DOMAIN atStart
      /\ \A i \in always : atStart[i] \in Nat /\ atStart[i] <= table[i].octets
  BY DEF OrderInv, LastingKept
<1>4. \A i \in always' :
         /\ i \in always
         /\ atStart'[i] = atStart[i] /\ atStart[i] \in Nat
         /\ table[i].octets \in Nat /\ table'[i].octets \in Nat
         /\ atStart[i] <= table[i].octets
         /\ table[i].octets <= table'[i].octets
  BY <1>1, <1>2, <1>3
<1>5. LastingKept'
  BY <1>2, <1>3, <1>4 DEF LastingKept
<1>6. seen \subseteq seen'
  BY <1>2
<1>7. SeenNow'
  BY <1>2 DEF SeenNow, Sight
<1>8. FoundWasThere'
  <2>1. \A i \in DOMAIN found'[descr] : \E b \in BOOLEAN : <<i, b>> \in seen'
    BY <1>2, <1>6 DEF OrderInv, FoundWasThere
  <2>2. \A i \in DOMAIN found'[operStatus] :
           \/ found'[operStatus][i] = 1 /\ <<i, TRUE>> \in seen'
           \/ found'[operStatus][i] = 2 /\ <<i, FALSE>> \in seen'
    BY <1>2, <1>6 DEF OrderInv, FoundWasThere
  <2>3. \A c \in {inOctets, outOctets} : \A i \in always' \cap DOMAIN found'[c] :
           found'[c][i] \in atStart'[i]..table'[i].octets
    <3>1. \A c \in {inOctets, outOctets} : \A i \in always \cap DOMAIN found[c] :
             found[c][i] \in atStart[i]..table[i].octets
      BY DEF OrderInv, FoundWasThere
    <3> QED
      BY <3>1, <1>2, <1>4
  <2> QED
    BY <2>1, <2>2, <2>3 DEF FoundWasThere
<1>9. WalkedPast'
  BY <1>2 DEF OrderInv, WalkedPast
<1>10. LastingAreShown'
  <2> SUFFICES ASSUME PollSucceeded', NEW i \in always'
               PROVE  /\ i \in DOMAIN snapshot'.interfaces
                      /\ i \in DOMAIN atStart'
                      /\ snapshot'.interfaces[i].rx \in atStart'[i]..table'[i].octets
                      /\ snapshot'.interfaces[i].tx \in atStart'[i]..table'[i].octets
    BY DEF LastingAreShown
  <2>1. PollSucceeded
    BY <1>2 DEF PollSucceeded
  <2>2. /\ i \in DOMAIN snapshot.interfaces
        /\ i \in DOMAIN atStart
        /\ snapshot.interfaces[i].rx \in atStart[i]..table[i].octets
        /\ snapshot.interfaces[i].tx \in atStart[i]..table[i].octets
    BY <2>1, <1>4 DEF OrderInv, LastingAreShown
  <2> QED
    BY <2>2, <1>2, <1>4
<1>11. NoneInvented'
  <2> SUFFICES ASSUME PollSucceeded', NEW i \in DOMAIN snapshot'.interfaces
               PROVE  IF snapshot'.interfaces[i].running THEN <<i, TRUE>> \in seen'
                      ELSE \/ <<i, FALSE>> \in seen'
                           \/ i \notin always' /\ <<i, TRUE>> \in seen'
    BY DEF NoneInvented
  <2>1. PollSucceeded
    BY <1>2 DEF PollSucceeded
  <2>2. IF snapshot.interfaces[i].running THEN <<i, TRUE>> \in seen
        ELSE \/ <<i, FALSE>> \in seen
             \/ i \notin always /\ <<i, TRUE>> \in seen
    BY <2>1, <1>2 DEF OrderInv, NoneInvented
  <2> QED
    BY <2>2, <1>2, <1>6
<1> QED
  BY <1>5, <1>7, <1>8, <1>9, <1>10, <1>11 DEF OrderInv

\* The first walk begins at its base, before every row.
LEMMA BaseOrder ==
    ASSUME WalkTypeOK, NEW i \in always
    PROVE  i # << >> /\ ~RowBefore[<<i, << >> >>]
<1>1. i \in Rows
  BY DEF WalkTypeOK
<1> QED
  BY <1>1, RowsTyped, NothingBeforeBase

LEMMA GetOrder ==
    ASSUME TypeInv, OrderInv, at = "get", at' = "walk", HistoryStays,
           UNCHANGED <<column, current, found, snapshot>>
    PROVE  OrderInv'
<1>1. column = descr /\ current = << >>
  BY DEF TypeInv
<1>2. \A c \in Columns : ~(c < descr)
  BY ColumnNumbers
<1>3. WalkedPast'
  BY <1>1, <1>2, BaseOrder DEF WalkedPast, HistoryStays, TypeInv
<1>4. LastingKept' /\ SeenNow' /\ FoundWasThere'
  BY DEF OrderInv, LastingKept, SeenNow, FoundWasThere, HistoryStays
<1>5. LastingAreShown' /\ NoneInvented'
  BY DEF LastingAreShown, NoneInvented, PollSucceeded
<1> QED
  BY <1>3, <1>4, <1>5 DEF OrderInv

LEMMA EnterShape ==
    ASSUME TypeInv, at = "walk", NEW r \in Rows, NEW n \in Nat, Enters(r, n)
    PROVE  \/ Fails
           \/ /\ current' = r /\ UNCHANGED <<at, column, snapshot>>
              /\ \A c \in Columns : c # column => found'[c] = found[c]
              /\ DOMAIN found'[column] = DOMAIN found[column] \cup {r}
              /\ found'[column][r] = n
              /\ \A i \in DOMAIN found[column] :
                    i # r => found'[column][i] = found[column][i]
<1>1. PICK v : v.int = n /\ WalkEntry(r, v)
  BY DEF Enters
<1> DEFINE results == With(found[column], r, v.int)
<1>2. /\ DOMAIN results = DOMAIN found[column] \cup {r}
      /\ results[r] = n
      /\ \A i \in DOMAIN found[column] : i # r => results[i] = found[column][i]
  BY <1>1 DEF With
<1>3. column \in Columns /\ DOMAIN found = Columns
  BY DEF TypeInv, WalkTypeOK
<1> HIDE DEF results
<1>4. \/ Return(Failed("limit"))
      \/ /\ found' = [found EXCEPT ![column] = results] /\ current' = r
         /\ UNCHANGED <<at, column, snapshot>>
  BY <1>1 DEF WalkEntry, results
<1>5. ASSUME found' = [found EXCEPT ![column] = results]
      PROVE  /\ found'[column] = results
             /\ \A c \in Columns : c # column => found'[c] = found[c]
  BY <1>3, <1>5
<1> QED
  BY <1>2, <1>4, <1>5 DEF Fails

\* The next row has been found: of the lasting ones none is between it and the
\* one before.
LEMMA EntersOrder ==
    ASSUME TypeInv, OrderInv, at = "walk", HistoryStays,
           NEW r \in DOMAIN table, r \in Rows, Enters(r, CellNumber(column, table[r])),
           \A s \in DOMAIN table :
               RowBefore[<<current, s>>] => ~RowBefore[<<s, r>>]
    PROVE  OrderInv'
<1> DEFINE n == CellNumber(column, table[r])
<1>0. /\ column \in Columns /\ current \in Places
      /\ table[r].up \in BOOLEAN /\ table[r].octets \in Nat /\ n \in Nat
  BY WalkAssumption DEF TypeInv, WalkTypeOK, Interface, CellNumber
<1>1. CASE Fails
  BY <1>1, FailsOrder
<1>2. CASE /\ current' = r /\ UNCHANGED <<at, column, snapshot>>
           /\ \A c \in Columns : c # column => found'[c] = found[c]
           /\ DOMAIN found'[column] = DOMAIN found[column] \cup {r}
           /\ found'[column][r] = n
           /\ \A i \in DOMAIN found[column] :
                 i # r => found'[column][i] = found[column][i]
  <2>1. LastingKept' /\ SeenNow'
    BY <1>2 DEF OrderInv, LastingKept, SeenNow, HistoryStays
  <2>2. LastingAreShown' /\ NoneInvented'
    BY <1>2 DEF LastingAreShown, NoneInvented, PollSucceeded
  <2>3. <<r, table[r].up>> \in seen /\ seen' = seen
    BY DEF OrderInv, SeenNow, HistoryStays
  <2>4. \A i \in DOMAIN found'[descr] : \E b \in BOOLEAN : <<i, b>> \in seen'
    <3>1. \A i \in DOMAIN found[descr] : \E b \in BOOLEAN : <<i, b>> \in seen
      BY DEF OrderInv, FoundWasThere
    <3>2. \A i \in DOMAIN found'[descr] : i \in DOMAIN found[descr] \/ i = r
      BY <1>2, ColumnNumbers
    <3> QED
      BY <3>1, <3>2, <2>3, <1>0
  <2>5. ASSUME NEW i \in DOMAIN found'[operStatus]
        PROVE  \/ found'[operStatus][i] = 1 /\ <<i, TRUE>> \in seen'
               \/ found'[operStatus][i] = 2 /\ <<i, FALSE>> \in seen'
    <3>1. CASE column = operStatus /\ i = r
      <4>1. found'[operStatus][i] = IF table[r].up THEN 1 ELSE 2
        BY <1>2, <3>1, ColumnNumbers DEF CellNumber
      <4>2. CASE table[r].up
        <5>1. table[r].up = TRUE
          BY <4>2, <1>0
        <5> QED
          BY <5>1, <4>1, <4>2, <3>1, <2>3
      <4>3. CASE ~table[r].up
        <5>1. table[r].up = FALSE
          BY <4>3, <1>0
        <5> QED
          BY <5>1, <4>1, <4>3, <3>1, <2>3
      <4> QED
        BY <4>2, <4>3
    <3>2. CASE ~(column = operStatus /\ i = r)
      <4>1. i \in DOMAIN found[operStatus]
            /\ found'[operStatus][i] = found[operStatus][i]
        BY <1>2, <3>2, ColumnNumbers
      <4> QED
        BY <4>1, <2>3 DEF OrderInv, FoundWasThere
    <3> QED
      BY <3>1, <3>2
  <2>6. ASSUME NEW c \in {inOctets, outOctets}, NEW i \in always' \cap DOMAIN found'[c]
        PROVE  found'[c][i] \in atStart'[i]..table'[i].octets
    <3>1. i \in always /\ atStart' = atStart /\ table' = table /\ c \in Columns
      BY ColumnNumbers DEF HistoryStays
    <3>2. CASE column = c /\ i = r
      <4>1. found'[c][i] = table[r].octets
        BY <1>2, <3>2, ColumnNumbers DEF CellNumber
      <4>2. atStart[i] \in Nat /\ atStart[i] <= table[i].octets
        BY <3>1 DEF OrderInv, LastingKept
      <4> QED
        BY <4>1, <4>2, <3>1, <3>2, <1>0
    <3>3. CASE ~(column = c /\ i = r)
      <4>1. i \in DOMAIN found[c] /\ found'[c][i] = found[c][i]
        BY <1>2, <3>1, <3>3
      <4> QED
        BY <4>1, <3>1 DEF OrderInv, FoundWasThere
    <3> QED
      BY <3>2, <3>3
  <2>7. FoundWasThere'
    BY <2>4, <2>5, <2>6 DEF FoundWasThere
  <2>8. ASSUME NEW i \in always', NEW c \in Columns,
               c < column' \/ (c = column'
                   /\ (i = current' \/ RowBefore[<<i, current'>>]))
        PROVE  i \in DOMAIN found'[c]
    <3>1. /\ i \in always /\ i \in DOMAIN table /\ i \in Places /\ r \in Places
          /\ column' = column /\ current' = r
      BY <1>2 DEF HistoryStays, OrderInv, LastingKept, TypeInv, WalkTypeOK, Places
    <3>2. CASE c < column
      <4>1. \A x \in always, e \in Columns : e < column => x \in DOMAIN found[e]
        BY DEF OrderInv, WalkedPast
      <4>2. i \in DOMAIN found[c]
        BY <4>1, <3>1, <3>2
      <4>3. c # column
        BY <3>2, <1>0, ColumnNumbers
      <4> QED
        BY <4>2, <4>3, <1>2
    <3>3. CASE c = column /\ i = r
      BY <3>3, <1>2
    <3>4. CASE c = column /\ RowBefore[<<i, r>>]
      <4>1. ~RowBefore[<<current, i>>]
        BY <3>1, <3>4
      <4>2. i = current \/ RowBefore[<<i, current>>]
        BY <4>1, <3>1, <1>0, RowsOrdered
      <4>3. i \in DOMAIN found[column]
        BY <4>2, <3>1, <1>0 DEF OrderInv, WalkedPast
      <4> QED
        BY <4>3, <3>4, <1>2
    <3> QED
      BY <2>8, <3>1, <3>2, <3>3, <3>4
  <2>9. WalkedPast'
    BY <2>8 DEF WalkedPast
  <2> QED
    BY <2>1, <2>2, <2>7, <2>9 DEF OrderInv
<1> HIDE DEF n
<1>3. Enters(r, n)
  BY DEF n
<1> QED
  BY <1>0, <1>1, <1>2, <1>3, EnterShape

\* A walk that ends has come by all that lasts; after the last one the poll is
\* put together from four such walks.
LEMMA EndsOrder ==
    ASSUME TypeInv, OrderInv, at = "walk", WalkEnds, HistoryStays,
           \A s \in DOMAIN table : ~RowBefore[<<current, s>>]
    PROVE  OrderInv'
<1>0. /\ column \in Columns /\ current \in Places
      /\ always \subseteq DOMAIN table /\ always \subseteq Rows
  BY DEF TypeInv, WalkTypeOK, OrderInv, LastingKept
<1>1. \A i \in always, c \in Columns : c <= column => i \in DOMAIN found[c]
  <2> SUFFICES ASSUME NEW i \in always, NEW c \in Columns, c <= column
               PROVE  i \in DOMAIN found[c]
    OBVIOUS
  <2>1. i = current \/ RowBefore[<<i, current>>]
    BY <1>0, RowsOrdered DEF Places
  <2>2. c < column \/ c = column
    BY <1>0, ColumnNumbers
  <2> QED
    BY <2>1, <2>2 DEF OrderInv, WalkedPast
<1>2. LastingKept'
  BY DEF OrderInv, LastingKept, HistoryStays
<1>3. CASE column # outOctets
  <2>1. /\ column' = column + 1 /\ current' = << >>
        /\ UNCHANGED <<at, found, snapshot>>
    BY <1>3 DEF WalkEnds
  <2>2. SeenNow' /\ FoundWasThere'
    BY <2>1 DEF OrderInv, SeenNow, FoundWasThere, HistoryStays
  <2>3. LastingAreShown' /\ NoneInvented'
    BY <2>1 DEF LastingAreShown, NoneInvented, PollSucceeded
  <2>4. \A c \in Columns : c < column' => c <= column
    BY <2>1, <1>0, ColumnNumbers
  <2>5. \A i \in always : i # << >> /\ ~RowBefore[<<i, << >> >>]
    BY BaseOrder DEF TypeInv
  <2>6. WalkedPast'
    BY <2>1, <2>4, <2>5, <1>1 DEF WalkedPast, HistoryStays
  <2> QED
    BY <1>2, <2>2, <2>3, <2>6 DEF OrderInv
<1>4. CASE column = outOctets
  <2>1. Return(Polled(found))
    BY <1>4 DEF WalkEnds
  <2>2. /\ at' = "idle" /\ found' = NoResults
        /\ snapshot'.interfaces = Joined(found)
    BY <2>1 DEF Return, Polled
  <2>3. \A c \in Columns : DOMAIN found'[c] = {}
    BY <2>2 DEF NoResults
  <2>4. FoundWasThere' /\ SeenNow' /\ WalkedPast'
    BY <2>2, <2>3, ColumnNumbers DEF FoundWasThere, SeenNow, WalkedPast
  <2> DEFINE Number(c, i) == IF i \in DOMAIN found[c] THEN found[c][i] ELSE 0
  <2>5. /\ DOMAIN Joined(found) = DOMAIN found[descr]
        /\ \A i \in DOMAIN found[descr] :
              /\ Joined(found)[i].running <=> Number(operStatus, i) = 1
              /\ Joined(found)[i].rx = Number(inOctets, i)
              /\ Joined(found)[i].tx = Number(outOctets, i)
    BY DEF Joined
  <2>6. \A i \in always, c \in Columns : i \in DOMAIN found[c]
    BY <1>1, <1>4, ColumnNumbers
  <2>7. LastingAreShown'
    <3> SUFFICES ASSUME NEW i \in always
                 PROVE  /\ i \in DOMAIN Joined(found) /\ i \in DOMAIN atStart
                        /\ Joined(found)[i].rx \in atStart[i]..table[i].octets
                        /\ Joined(found)[i].tx \in atStart[i]..table[i].octets
      BY <2>2 DEF LastingAreShown, HistoryStays
    <3>1. /\ i \in DOMAIN found[descr] /\ i \in DOMAIN found[inOctets]
          /\ i \in DOMAIN found[outOctets] /\ i \in DOMAIN atStart
      BY <2>6, ColumnNumbers DEF OrderInv, LastingKept
    <3>2. /\ found[inOctets][i] \in atStart[i]..table[i].octets
          /\ found[outOctets][i] \in atStart[i]..table[i].octets
      BY <3>1 DEF OrderInv, FoundWasThere
    <3>3. Joined(found)[i].rx = found[inOctets][i]
          /\ Joined(found)[i].tx = found[outOctets][i]
      BY <3>1, <2>5
    <3> QED
      BY <3>1, <3>2, <3>3, <2>5
  <2>8. NoneInvented'
    <3> SUFFICES ASSUME NEW i \in DOMAIN Joined(found)
                 PROVE  IF Joined(found)[i].running THEN <<i, TRUE>> \in seen
                        ELSE \/ <<i, FALSE>> \in seen
                             \/ i \notin always /\ <<i, TRUE>> \in seen
      BY <2>2 DEF NoneInvented, HistoryStays
    <3>1. /\ i \in DOMAIN found[descr]
          /\ Joined(found)[i].running <=> Number(operStatus, i) = 1
      BY <2>5
    <3>2. CASE i \in DOMAIN found[operStatus]
      <4>1. \/ found[operStatus][i] = 1 /\ <<i, TRUE>> \in seen
            \/ found[operStatus][i] = 2 /\ <<i, FALSE>> \in seen
        BY <3>2 DEF OrderInv, FoundWasThere
      <4> QED
        BY <4>1, <3>1, <3>2
    <3>3. CASE i \notin DOMAIN found[operStatus]
      <4>1. i \notin always
        BY <3>3, <2>6, ColumnNumbers
      <4>2. PICK b \in BOOLEAN : <<i, b>> \in seen
        BY <3>1 DEF OrderInv, FoundWasThere
      <4>3. <<i, TRUE>> \in seen \/ <<i, FALSE>> \in seen
        BY <4>2
      <4>4. ~Joined(found)[i].running
        BY <3>1, <3>3
      <4> QED
        BY <4>1, <4>3, <4>4
    <3> QED
      BY <3>2, <3>3
  <2> QED
    BY <1>2, <2>4, <2>7, <2>8 DEF OrderInv
<1> QED
  BY <1>3, <1>4

LEMMA OrderStep ==
    ASSUME CodecFaithful, Orderly
    PROVE  TypeInv /\ OrderInv /\ [WalkNext]_vars => OrderInv'
<1> SUFFICES ASSUME TypeInv, OrderInv, [WalkNext]_vars PROVE OrderInv'
  OBVIOUS
<1>1. CASE UNCHANGED vars
  BY <1>1 DEF vars, client, OrderInv, LastingKept, SeenNow, FoundWasThere,
     WalkedPast, LastingAreShown, NoneInvented, PollSucceeded
<1>2. CASE Answered \/ Refused \/ RequestFails
  <2>1. /\ HistoryStays
        /\ \/ Fails
           \/ /\ at = "get" /\ at' = "walk"
              /\ UNCHANGED <<column, current, found, snapshot>>
           \/ /\ at = "walk" /\ WalkEnds
              /\ \A s \in DOMAIN table : ~RowBefore[<<current, s>>]
           \/ /\ at = "walk"
              /\ \E r \in Rows, n \in Nat :
                    /\ Enters(r, n) /\ r \in DOMAIN table
                    /\ n = CellNumber(column, table[r])
                    /\ \A s \in DOMAIN table :
                          RowBefore[<<current, s>>] => ~RowBefore[<<s, r>>]
    BY <1>2, PollSteps DEF TypeInv
  <2>2. CASE Fails
    BY <2>1, <2>2, FailsOrder
  <2>3. CASE /\ at = "get" /\ at' = "walk"
             /\ UNCHANGED <<column, current, found, snapshot>>
    BY <2>1, <2>3, GetOrder
  <2>4. CASE /\ at = "walk" /\ WalkEnds
             /\ \A s \in DOMAIN table : ~RowBefore[<<current, s>>]
    BY <2>1, <2>4, EndsOrder
  <2>5. CASE /\ at = "walk"
             /\ \E r \in Rows, n \in Nat :
                   /\ Enters(r, n) /\ r \in DOMAIN table
                   /\ n = CellNumber(column, table[r])
                   /\ \A s \in DOMAIN table :
                         RowBefore[<<current, s>>] => ~RowBefore[<<s, r>>]
    BY <2>1, <2>5, EntersOrder
  <2> QED
    BY <2>1, <2>2, <2>3, <2>4, <2>5
<1> QED
  BY <1>1, <1>2, ChangesOrder, BeginOrder DEF WalkNext, Poller

LEMMA Orders ==
    ASSUME CodecFaithful, Orderly
    PROVE  WalkSpec => []OrderInv
BY OrderInit, OrderStep, Types, PTL DEF WalkSpec

\* SNMPPoller.Snapshot over an agent that answers in order: however the table
\* changes between the requests, an interface that was there for all of the
\* poll is shown, with counters that it had at some time of it.
THEOREM LastingShown ==
    ASSUME Orderly
    PROVE  WalkSpec => []LastingAreShown
<1>1. OrderInv => LastingAreShown
  BY DEF OrderInv
<1>2. WalkSpec => []OrderInv
  BY Codec, Orders
<1> QED
  BY <1>1, <1>2, PTL

\* And no interface is shown that was not there, nor as running or not running
\* if it was not so (or gone) at some time of the poll.
THEOREM NoInvention ==
    ASSUME Orderly
    PROVE  WalkSpec => []NoneInvented
<1>1. OrderInv => NoneInvented
  BY DEF OrderInv
<1>2. WalkSpec => []OrderInv
  BY Codec, Orders
<1> QED
  BY <1>1, <1>2, PTL
----------------------------------------------------------------------------
\* Answers are read: what a poll returns is what the agent said.

\* The poll under way knows the agent's time once its first answer is read; and
\* what it returned, too.
AnswerInv ==
    /\ at = "walk" => uptime = Uptime \div 100
    /\ snapshot.error \notin {"malformed", "empty"}
    /\ PollSucceeded => snapshot.uptime = Uptime \div 100

LEMMA FailedIs ==
    ASSUME NEW why
    PROVE  Failed(why).ok = FALSE /\ Failed(why).error = why
BY DEF Failed

\* A poll that fails for another reason.
LEMMA ReturnsFailed ==
    ASSUME NEW why \in {"lost", "refused", "limit"}, Return(Failed(why))
    PROVE  AnswerInv'
<1>1. at' = "idle" /\ snapshot' = Failed(why)
  BY DEF Return
<1>2. snapshot'.ok = FALSE /\ snapshot'.error = why
  BY <1>1, FailedIs
<1>3. why \notin {"malformed", "empty"}
  OBVIOUS
<1> QED
  BY <1>1, <1>2, <1>3 DEF AnswerInv, PollSucceeded

LEMMA SystemAnswer ==
    ASSUME AnswerInv, GetSystem(SystemReply)
    PROVE  AnswerInv'
<1> DEFINE reply == SystemReply
<1>1. reply \in Replies
  BY DEF Replies
<1>2. /\ reply.status = 0 /\ DOMAIN reply.varbinds = {1, 2}
      /\ reply.varbinds[2] = VarBind(oidSysUpTime, tagTimeTicks, Uptime)
  BY DEF SystemReply, Reply
<1> HIDE DEF reply
<1>3. PICK got \in Read[reply] :
         IF ~got.ok THEN Return(NotRead(reply))
         ELSE /\ at' = "walk"
              /\ uptime' = IF oidSysUpTime \in DOMAIN got.results
                           THEN got.results[oidSysUpTime].int \div 100 ELSE 0
              /\ UNCHANGED <<column, current, found, snapshot>>
  BY Zenon DEF GetSystem, reply
<1>4. got.ok /\ Tells(got.results, reply.varbinds)
  BY <1>1, <1>2, ReplyRead
<1> DEFINE said == reply.varbinds[2]
<1>5. said.oid = oidSysUpTime /\ said.tag = tagTimeTicks /\ said.n = Uptime
  BY <1>2 DEF VarBind
<1>6. said.oid \in DOMAIN got.results /\ IsSaid(got.results[said.oid], said)
  BY <1>2, <1>4 DEF Tells
<1> HIDE DEF said
<1>7. got.results[oidSysUpTime].int = Uptime
  BY <1>5, <1>6 DEF IsSaid, NumberTags
<1>8. at' = "walk" /\ uptime' = Uptime \div 100 /\ snapshot' = snapshot
  <2>1. /\ at' = "walk" /\ snapshot' = snapshot
        /\ uptime' = IF oidSysUpTime \in DOMAIN got.results
                     THEN got.results[oidSysUpTime].int \div 100 ELSE 0
    BY <1>3, <1>4
  <2>2. oidSysUpTime \in DOMAIN got.results
    BY <1>5, <1>6
  <2> QED
    BY <1>7, <2>1, <2>2
<1> QED
  BY <1>8 DEF AnswerInv, PollSucceeded

\* A refusal is read as one.
LEMMA RefusalAnswer ==
    ASSUME NEW reply \in Replies, reply.status = 5,
           GetSystem(reply) \/ GetNext(reply)
    PROVE  AnswerInv'
<1>1. \A got \in Read[reply] : ~got.ok
  BY ReplyRead
<1>2. Return(NotRead(reply))
  BY <1>1 DEF GetSystem, GetNext
<1>3. NotRead(reply) = Failed("refused")
  BY DEF NotRead
<1>4. Return(Failed("refused"))
  BY <1>2, <1>3
<1> QED
  BY <1>4, ReturnsFailed

\* What an agent says next is a reply without an error.
LEMMA NextReplies ==
    ASSUME TypeInv, NEW reply \in GetNextReplies(column, current)
    PROVE  reply \in Replies /\ reply.status = 0
<1>1. /\ column \in Columns /\ current \in Places
      /\ \A i \in DOMAIN table : i \in Rows /\ table[i] \in Interface
  BY DEF TypeInv, WalkTypeOK
<1>2. Oid(column, current) \in Questions
  BY <1>1 DEF Questions
<1>3. ASSUME NEW oid \in Questions
      PROVE  EndOfMibView(oid) \in Replies /\ EndOfMibView(oid).status = 0
  <2>1. EndOfMibView(oid) \in Replies
    BY DEF Replies
  <2> QED
    BY <2>1 DEF EndOfMibView, Reply
<1>4. Beyond \in Replies /\ Beyond.status = 0
  <2>1. Beyond \in Replies
    BY DEF Replies
  <2> QED
    BY <2>1 DEF Beyond, Reply
<1>5. ASSUME NEW c \in Columns, NEW row \in Rows, NEW up \in BOOLEAN, NEW o \in Octets
      PROVE  /\ Reply(0, <<Cell(c, row, up, o)>>) \in Replies
             /\ Reply(0, <<Cell(c, row, up, o)>>).status = 0
  <2>1. Reply(0, <<Cell(c, row, up, o)>>) \in Replies
    BY DEF Replies
  <2> QED
    BY <2>1 DEF Reply
<1>6. TRUE \in BOOLEAN /\ 0 \in Octets
  BY WalkAssumption
<1>7. CASE ~Orderly
  <2>1. \/ reply = EndOfMibView(Oid(column, current))
        \/ \E o \in Columns \X Rows : reply = Reply(0, <<Cell(o[1], o[2], TRUE, 0)>>)
    BY <1>7 DEF GetNextReplies
  <2>2. \A o \in Columns \X Rows : o[1] \in Columns /\ o[2] \in Rows
    OBVIOUS
  <2>3. CASE reply = EndOfMibView(Oid(column, current))
    BY <1>2, <1>3, <2>3
  <2>4. ASSUME NEW o \in Columns \X Rows,
               reply = Reply(0, <<Cell(o[1], o[2], TRUE, 0)>>)
        PROVE  reply \in Replies /\ reply.status = 0
    <3>1. /\ Reply(0, <<Cell(o[1], o[2], TRUE, 0)>>) \in Replies
          /\ Reply(0, <<Cell(o[1], o[2], TRUE, 0)>>).status = 0
      BY <1>5, <1>6, <2>2
    <3> QED
      BY <2>4, <3>1, Zenon
  <2> QED
    BY <2>1, <2>3, <2>4, Zenon
<1>8. CASE Orderly
  <2>1. \/ reply \in {EndOfMibView(Oid(column, current)), Beyond}
        \/ \E o \in Columns \X DOMAIN table :
              reply = Reply(0, <<Cell(o[1], o[2], table[o[2]].up,
                                      table[o[2]].octets)>>)
    BY <1>8, Zenon DEF GetNextReplies
  <2>2. \A o \in Columns \X DOMAIN table :
           /\ o[1] \in Columns /\ o[2] \in Rows
           /\ table[o[2]].up \in BOOLEAN /\ table[o[2]].octets \in Octets
    BY <1>1 DEF Interface
  <2>3. CASE reply = EndOfMibView(Oid(column, current))
    BY <1>2, <1>3, <2>3
  <2>4. CASE reply = Beyond
    BY <1>4, <2>4, Zenon
  <2>5. ASSUME NEW o \in Columns \X DOMAIN table,
               reply = Reply(0, <<Cell(o[1], o[2], table[o[2]].up,
                                       table[o[2]].octets)>>)
        PROVE  reply \in Replies /\ reply.status = 0
    <3>1. LET said == Reply(0, <<Cell(o[1], o[2], table[o[2]].up,
                                      table[o[2]].octets)>>)
          IN  said \in Replies /\ said.status = 0
      BY <1>5, <2>2
    <3> QED
      BY <2>5, <3>1, Zenon
  <2> QED
    BY <2>1, <2>3, <2>4, <2>5, Zenon
<1> QED
  BY <1>7, <1>8

LEMMA NextAnswered ==
    ASSUME TypeInv, AnswerInv,
           NEW reply \in GetNextReplies(column, current), GetNext(reply)
    PROVE  AnswerInv'
<1>1. reply \in Replies /\ reply.status = 0
  BY NextReplies
<1>2. PICK got \in Read[reply] :
         IF ~got.ok THEN Return(NotRead(reply))
         ELSE IF DOMAIN got.results = {} THEN Return(Failed("empty"))
         ELSE \E next \in DOMAIN got.results :
                 IF InSubtree(next, got.results[next])
                 THEN WalkEntry(From(next, Len(Base(column)) + 1),
                                got.results[next])
                 ELSE WalkEnds
  BY Zenon DEF GetNext
<1>3. got.ok /\ Tells(got.results, reply.varbinds)
  BY <1>1, ReplyRead
<1>4. DOMAIN got.results # {}
  <2>1. 1 \in DOMAIN reply.varbinds
    <3>1. Shown(reply)
      BY <1>1, RepliesShown
    <3> QED
      BY <3>1 DEF Shown
  <2> QED
    BY <1>3, <2>1 DEF Tells
<1>5. at = "walk" /\ uptime = Uptime \div 100
  BY DEF GetNext, AnswerInv
<1>6. (\E row, value : WalkEntry(row, value)) \/ WalkEnds
  BY <1>2, <1>3, <1>4, Zenon
<1>7. CASE \E row, value : WalkEntry(row, value)
  <2>1. Return(Failed("limit")) \/ UNCHANGED <<at, uptime, snapshot>>
    BY <1>7 DEF WalkEntry
  <2>2. CASE Return(Failed("limit"))
    BY <2>2, ReturnsFailed
  <2>3. CASE UNCHANGED <<at, uptime, snapshot>>
    BY <2>3 DEF AnswerInv, PollSucceeded
  <2> QED
    BY <2>1, <2>2, <2>3
<1>8. CASE WalkEnds
  <2>1. Return(Polled(found)) \/ UNCHANGED <<at, uptime, snapshot>>
    BY <1>8 DEF WalkEnds
  <2>2. CASE Return(Polled(found))
    <3>1. at' = "idle" /\ snapshot' = Polled(found)
      BY <2>2 DEF Return
    <3>2. Polled(found).error = "none" /\ Polled(found).uptime = uptime
      BY DEF Polled
    <3> QED
      BY <1>5, <3>1, <3>2 DEF AnswerInv, PollSucceeded
  <2>3. CASE UNCHANGED <<at, uptime, snapshot>>
    BY <2>3 DEF AnswerInv, PollSucceeded
  <2> QED
    BY <2>1, <2>2, <2>3
<1> QED
  BY <1>6, <1>7, <1>8

LEMMA AnswerStep == TypeInv /\ AnswerInv /\ [WalkNext]_vars => AnswerInv'
<1> SUFFICES ASSUME TypeInv, AnswerInv, [WalkNext]_vars PROVE AnswerInv'
  OBVIOUS
<1>1. CASE UNCHANGED vars
  BY <1>1 DEF vars, client, AnswerInv, PollSucceeded
<1>2. CASE TableChanges
  BY <1>2 DEF TableChanges, client, AnswerInv, PollSucceeded
<1>3. CASE BeginPoll
  <2>1. at' = "get" /\ snapshot' = Failed("none")
    BY <1>3 DEF BeginPoll
  <2>2. snapshot'.error = "none"
    BY <2>1, FailedIs
  <2> QED
    BY <2>1, <2>2 DEF AnswerInv, PollSucceeded
<1>4. CASE RequestFails
  BY <1>4, ReturnsFailed DEF RequestFails
<1>5. CASE Answered
  BY <1>5, SystemAnswer, NextAnswered DEF Answered
<1>6. CASE Refused
  <2>1. Refusal(SystemOids) \in Replies /\ Refusal(SystemOids).status = 5
    <3>1. Refusal(SystemOids) \in Replies
      BY DEF Replies
    <3> QED
      BY <3>1 DEF Refusal, Reply
  <2>2. /\ Refusal(<<Oid(column, current)>>) \in Replies
        /\ Refusal(<<Oid(column, current)>>).status = 5
    <3>1. Oid(column, current) \in Questions
      BY DEF Questions, TypeInv, WalkTypeOK
    <3>2. Refusal(<<Oid(column, current)>>) \in Replies
      BY <3>1 DEF Replies
    <3> QED
      BY <3>2 DEF Refusal, Reply
  <2> QED
    BY <1>6, <2>1, <2>2, RefusalAnswer DEF Refused
<1> QED
  BY <1>1, <1>2, <1>3, <1>4, <1>5, <1>6 DEF WalkNext, Poller

\* Client against agent of the standard, orderly or not, in any of its forms and
\* with any table: no answer is refused or found empty, and a snapshot has the
\* agent's time.
THEOREM AnswersRead == WalkSpec => []AnswersAreRead
<1>1. WalkInit => AnswerInv
  <2> SUFFICES ASSUME WalkInit PROVE AnswerInv
    OBVIOUS
  <2>1. at = "idle" /\ snapshot = Failed("none")
    BY DEF WalkInit
  <2>2. snapshot.ok = FALSE /\ snapshot.error = "none"
    BY <2>1, FailedIs
  <2> QED
    BY <2>1, <2>2 DEF AnswerInv, PollSucceeded
<1>2. WalkSpec => []TypeInv
  BY Codec, Types
<1>3. AnswerInv => AnswersAreRead
  BY Codec DEF AnswerInv, AnswersAreRead
<1> QED
  BY <1>1, <1>2, <1>3, AnswerStep, PTL DEF WalkSpec
=============================================================================
