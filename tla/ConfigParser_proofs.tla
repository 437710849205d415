------------------------ MODULE ConfigParser_proofs ------------------------
(***************************************************************************)
(* Theorems about ConfigParser, for files of any lines and any length: its *)
(* types, and that what it loads is what the file says when read as a      *)
(* whole.                                                                  *)
(***************************************************************************)
EXTENDS ConfigParser, SequenceTheorems, FiniteSetTheorems,
        WellFoundedInduction, TLAPS

Settings == NumberSettings \cup TextSettings

\* A sequence, whatever it is of.
IsSeq(s) == s \in Seq({s[i] : i \in DOMAIN s})

OpenListed == IsSeq(currentDevice)

CfgShape ==
    /\ DOMAIN cfg = {"settings", "devices", "notifiers"}
    /\ DOMAIN cfg.settings = Settings
    /\ IsSeq(cfg.devices)

Rejected(line) == line.key \in NumberSettings /\ ~Parses(line)

ErrorNoticed ==
    outcome = "invalid_setting" <=> \E i \in DOMAIN file : Rejected(file[i])

LastSettings ==
    \A key \in Settings :
        cfg.settings[key] = LastOf(file, DOMAIN file, key, Defaults[key])

ParserInv ==
    /\ OpenListed /\ CfgShape /\ file \in Seq(Lines)
    /\ ErrorNoticed /\ LastSettings

LEMMA ParserInvImplies ==
    ASSUME ParserInv
    PROVE  SettingsAsWritten
BY Zenon DEF ParserInv, LastSettings, ErrorNoticed, Rejected,
   SettingsAsWritten, Settings
----------------------------------------------------------------------------
(* Sequences, and the last line of a set.                                  *)

LEMMA IsSeqOf ==
    ASSUME NEW S, NEW s \in Seq(S)
    PROVE  IsSeq(s) /\ DOMAIN s = 1..Len(s) /\ Len(s) \in Nat
<1>1. DOMAIN s = 1..Len(s) /\ Len(s) \in Nat /\ s = [i \in 1..Len(s) |-> s[i]]
  BY LenProperties
<1> DEFINE R == {s[i] : i \in DOMAIN s}
<1>2. \A i \in 1..Len(s) : s[i] \in R
  BY <1>1
<1> HIDE DEF R
<1>3. [i \in 1..Len(s) |-> s[i]] \in Seq(R)
  BY <1>1, <1>2
<1>4. s \in Seq(R)
  BY <1>1, <1>3, Zenon
<1> QED
  BY <1>1, <1>4 DEF IsSeq, R

LEMMA SeqLength ==
    ASSUME NEW s, IsSeq(s)
    PROVE  DOMAIN s = 1..Len(s) /\ Len(s) \in Nat
BY IsSeqOf DEF IsSeq

LEMMA SeqConcat ==
    ASSUME NEW s, NEW t, IsSeq(s), IsSeq(t)
    PROVE  IsSeq(s \o t)
<1> DEFINE S == {s[i] : i \in DOMAIN s}
           T == {t[i] : i \in DOMAIN t}
<1>1. s \in Seq(S) /\ t \in Seq(T)
  BY Zenon DEF IsSeq
<1> HIDE DEF S, T
<1>2. s \in Seq(S \cup T) /\ t \in Seq(S \cup T)
  BY <1>1
<1>3. s \o t \in Seq(S \cup T)
  BY <1>2
<1> QED
  BY <1>3, IsSeqOf

LEMMA DevicesTyped ==
    ASSUME IsSeq(cfg.devices), NEW open, IsSeq(open)
    PROVE  IsSeq(Devices(open))
<1> DEFINE flushed == [i \in DOMAIN open |-> WithDefaults(open[i])]
<1>1. DOMAIN open = 1..Len(open) /\ Len(open) \in Nat
  BY SeqLength
<1>2. IsSeq(flushed)
  <2> DEFINE R == {flushed[i] : i \in DOMAIN flushed}
  <2>1. \A i \in 1..Len(open) : WithDefaults(open[i]) \in R
    BY <1>1
  <2> HIDE DEF R
  <2>2. flushed \in Seq(R)
    BY <1>1, <2>1
  <2> QED
    BY <2>2, IsSeqOf
<1> QED
  BY <1>2, SeqConcat DEF Devices

LEMMA GreatestIs ==
    ASSUME NEW n \in Nat, NEW T \in SUBSET (1..n), T # {}
    PROVE  Max(T) \in T /\ \A i \in T : Max(T) >= i
<1> DEFINE U == {n - i : i \in T}
<1>1. U \in SUBSET Nat /\ U # {}
  <2>1. \A i \in T : i \in 1..n /\ n - i \in Nat
    OBVIOUS
  <2> QED
    BY <2>1
<1>2. \E m \in U : \A k \in U : ~(<<k, m>> \in OpToRel(<, Nat))
  BY <1>1, NatLessThanWellFounded, WFMin
<1>3. PICK m \in U : \A k \in U : ~(k < m)
  BY <1>1, <1>2 DEF OpToRel
<1>4. PICK j \in T : m = n - j
  BY <1>3
<1>5. \A i \in T : j >= i
  BY <1>3, <1>4
<1> QED
  BY <1>4, <1>5 DEF Max

LEMMA GreatestEquals ==
    ASSUME NEW n \in Nat, NEW T \in SUBSET (1..n), n \in T
    PROVE  Max(T) = n
<1>1. Max(T) \in T /\ Max(T) >= n
  BY GreatestIs
<1>2. Max(T) \in 1..n
  BY <1>1
<1> QED
  BY <1>1, <1>2

----------------------------------------------------------------------------
(* The numbers of a set in their order.                                    *)

LEMMA BoundedFinite ==
    ASSUME NEW n \in Nat, NEW S \in SUBSET (1..n)
    PROVE  IsFiniteSet(S) /\ Cardinality(S) \in Nat /\ S \in SUBSET Nat
<1>1. IsFiniteSet(1..n)
  BY FS_Interval
<1>2. IsFiniteSet(S)
  BY <1>1, FS_Subset
<1>3. Cardinality(S) \in Nat
  BY <1>2, FS_CardinalityType
<1>4. \A y \in S : y \in 1..n
  BY Zenon
<1>5. \A y \in S : y \in Nat
  BY <1>4
<1> QED
  BY <1>2, <1>3, <1>5

Rank(S, x) == Cardinality({y \in S : y <= x})

\* Of two numbers the greater has the greater rank.
LEMMA RankGrows ==
    ASSUME NEW n \in Nat, NEW S \in SUBSET (1..n),
           NEW x \in S, NEW z \in S, x < z
    PROVE  Rank(S, x) < Rank(S, z)
<1> DEFINE X == {y \in S : y <= x}
           Z == {y \in S : y <= z}
<1>0. S \subseteq 1..n /\ (\A y \in S : y \in Int)
  BY BoundedFinite
<1>1. X \in SUBSET (1..n) /\ Z \in SUBSET (1..n) /\ X \in SUBSET Z
  <2>1. \A y \in S : y <= x => y <= z
    BY <1>0
  <2>2. X \subseteq S /\ Z \subseteq S /\ X \subseteq Z
    BY <2>1
  <2> QED
    BY <1>0, <2>2, Zenon
<1>2. z \in Z /\ z \notin X
  BY <1>0
<1> HIDE DEF X, Z
<1>3. IsFiniteSet(Z) /\ Cardinality(X) \in Nat /\ Cardinality(Z) \in Nat
  BY <1>1, BoundedFinite
<1>4. Cardinality(X) <= Cardinality(Z) /\ Cardinality(X) # Cardinality(Z)
  BY <1>1, <1>2, <1>3, FS_Subset
<1>5. Cardinality(X) < Cardinality(Z)
  BY <1>3, <1>4
<1> QED
  BY <1>5 DEF Rank, X, Z

LEMMA RankTyped ==
    ASSUME NEW n \in Nat, NEW S \in SUBSET (1..n), NEW x \in S
    PROVE  Rank(S, x) \in 1..Cardinality(S)
<1> DEFINE X == {y \in S : y <= x}
<1>1. X \in SUBSET S /\ X \in SUBSET (1..n) /\ x \in X
  <2>1. S \subseteq 1..n /\ x \in Int
    BY BoundedFinite
  <2>2. X \subseteq S /\ x \in X
    BY <2>1
  <2> QED
    BY <2>1, <2>2, Zenon
<1> HIDE DEF X
<1>2. /\ IsFiniteSet(S) /\ IsFiniteSet(X)
      /\ Cardinality(X) \in Nat /\ Cardinality(S) \in Nat
  BY <1>1, BoundedFinite
<1>3. Cardinality(X) <= Cardinality(S) /\ Cardinality(X) # 0
  BY <1>1, <1>2, FS_Subset, FS_EmptySet
<1>4. Cardinality(X) \in 1..Cardinality(S)
  BY <1>2, <1>3
<1> QED
  BY <1>4 DEF Rank, X

\* Every rank is that of some number: as many ranks as numbers, none twice.
LEMMA RankOnto ==
    ASSUME NEW n \in Nat, NEW S \in SUBSET (1..n),
           NEW k \in 1..Cardinality(S)
    PROVE  \E x \in S : Rank(S, x) = k
<1> DEFINE K == Cardinality(S)
           rank == [x \in S |-> Rank(S, x)]
<1>1. K \in Nat /\ IsFiniteSet(S)
  BY BoundedFinite
<1>2. IsFiniteSet(1..K) /\ Cardinality(1..K) = K
  BY <1>1, FS_Interval
<1>3. \A x \in S : rank[x] = Rank(S, x) /\ Rank(S, x) \in 1..K
  BY RankTyped
<1>4. \A x, z \in S : rank[x] = rank[z] => x = z
  <2>1. \A x, z \in S : x < z \/ z < x \/ x = z
    OBVIOUS
  <2>2. \A x, z \in S : x < z => Rank(S, x) < Rank(S, z)
    BY RankGrows
  <2> HIDE DEF rank
  <2> QED
    BY <1>1, <1>3, <2>1, <2>2
<1>5. rank \in [S -> 1..K] /\ DOMAIN rank = S
  BY <1>3
<1> HIDE DEF rank, K
<1>6. rank \in Injection(S, 1..K)
  BY <1>4, <1>5, Zenon DEF Injection, IsInjective
<1>7. rank \in Surjection(S, 1..K)
  BY <1>2, <1>6, FS_Injection DEF K
<1>8. \A t \in 1..K : \E x \in S : rank[x] = t
  BY <1>7, Zenon DEF Surjection
<1> QED
  BY <1>3, <1>8, Zenon DEF K

\* InOrder enumerates: it undoes the rank.
LEMMA InOrderIs ==
    ASSUME NEW n \in Nat, NEW S \in SUBSET (1..n)
    PROVE  /\ DOMAIN InOrder(S) = 1..Cardinality(S)
           /\ \A k \in 1..Cardinality(S) :
                 InOrder(S)[k] \in S /\ Rank(S, InOrder(S)[k]) = k
           /\ \A x \in S : InOrder(S)[Rank(S, x)] = x
<1> DEFINE K == Cardinality(S)
<1>1. /\ DOMAIN InOrder(S) = 1..K
      /\ \A k \in 1..K : InOrder(S)[k] = CHOOSE x \in S : Rank(S, x) = k
  BY DEF InOrder, Rank
<1>2. \A k \in 1..K : \E x \in S : Rank(S, x) = k
  BY RankOnto
<1> HIDE DEF K
<1>3. \A k \in 1..K : InOrder(S)[k] \in S /\ Rank(S, InOrder(S)[k]) = k
  BY <1>1, <1>2, Zenon
<1>4. ASSUME NEW x \in S PROVE InOrder(S)[Rank(S, x)] = x
  <2> DEFINE z == InOrder(S)[Rank(S, x)]
  <2>1. Rank(S, x) \in 1..K
    BY RankTyped DEF K
  <2>2. z \in S /\ Rank(S, z) = Rank(S, x)
    BY <1>3, <2>1
  <2> HIDE DEF z
  <2>3. Rank(S, x) \in Int
    BY <2>1
  <2>4. ~(x < z) /\ ~(z < x)
    <3>1. x < z => Rank(S, x) < Rank(S, z)
      BY <2>2, RankGrows
    <3>2. z < x => Rank(S, z) < Rank(S, x)
      BY <2>2, RankGrows
    <3> QED
      BY <2>2, <2>3, <3>1, <3>2
  <2>5. x \in Int /\ z \in Int
    BY <2>2, BoundedFinite
  <2>6. z = x
    BY <2>4, <2>5
  <2> QED
    BY <2>6 DEF z
<1> QED
  BY <1>1, <1>3, <1>4 DEF K

\* A number greater than all comes last, and moves no other.
LEMMA InOrderMore ==
    ASSUME NEW n \in Nat, NEW S \in SUBSET (1..n)
    PROVE  LET T == S \cup {n + 1}
               K == Cardinality(S) IN
           /\ K \in Nat
           /\ Cardinality(T) = K + 1
           /\ DOMAIN InOrder(S) = 1..K /\ DOMAIN InOrder(T) = 1..(K + 1)
           /\ \A k \in 1..K : InOrder(S)[k] \in S
           /\ \A k \in 1..K : InOrder(T)[k] = InOrder(S)[k]
           /\ InOrder(T)[K + 1] = n + 1
<1> DEFINE T == S \cup {n + 1}
           K == Cardinality(S)
<1>1. T \in SUBSET (1..(n + 1)) /\ n + 1 \in Nat /\ n + 1 \notin S
  OBVIOUS
<1>2. IsFiniteSet(S) /\ K \in Nat
  BY BoundedFinite
<1>3. Cardinality(T) = K + 1
  BY <1>1, <1>2, FS_AddElement
<1>4. \A x \in S : Rank(T, x) = Rank(S, x)
  <2>1. \A x \in S : {y \in T : y <= x} = {y \in S : y <= x}
    OBVIOUS
  <2> QED
    BY <2>1 DEF Rank
<1>5. Rank(T, n + 1) = K + 1
  <2>1. \A y \in S : y \in 1..n
    BY Zenon
  <2>2. \A y \in T : y <= n + 1
    BY <2>1
  <2>3. {y \in T : y <= n + 1} = T
    BY <2>2, Zenon
  <2> QED
    BY <1>3, <2>3 DEF Rank
<1>6. S \subseteq T /\ n + 1 \in T
  OBVIOUS
<1> HIDE DEF T, K
<1>7. /\ DOMAIN InOrder(S) = 1..K
      /\ \A k \in 1..K : InOrder(S)[k] \in S /\ Rank(S, InOrder(S)[k]) = k
  BY InOrderIs DEF K
<1>8. /\ DOMAIN InOrder(T) = 1..(K + 1)
      /\ \A x \in T : InOrder(T)[Rank(T, x)] = x
  BY <1>1, <1>3, InOrderIs
<1>9. \A k \in 1..K : InOrder(T)[k] = InOrder(S)[k]
  BY <1>4, <1>6, <1>7, <1>8, Zenon
<1>10. InOrder(T)[K + 1] = n + 1
  BY <1>5, <1>6, <1>8, Zenon
<1> QED
  BY <1>2, <1>3, <1>7, <1>8, <1>9, <1>10 DEF T, K

\* The last in order is the greatest, and all others are smaller.
LEMMA InOrderTop ==
    ASSUME NEW n \in Nat, NEW S \in SUBSET (1..n), S # {}
    PROVE  LET K == Cardinality(S) IN
           /\ K \in Nat \ {0} /\ InOrder(S)[K] = Max(S)
           /\ \A k \in 1..(K - 1) : InOrder(S)[k] \in S
                                       /\ InOrder(S)[k] < Max(S)
<1> DEFINE K == Cardinality(S)
           m == Max(S)
<1>1. m \in S /\ \A x \in S : m >= x
  BY GreatestIs
<1>2. IsFiniteSet(S) /\ K \in Nat
  BY BoundedFinite
<1>3. K # 0
  BY <1>1, <1>2, FS_EmptySet
<1> HIDE DEF m
<1>4. Rank(S, m) = K
  <2>1. {y \in S : y <= m} = S
    BY <1>1
  <2> QED
    BY <2>1 DEF Rank
<1>5. /\ \A k \in 1..K : InOrder(S)[k] \in S /\ Rank(S, InOrder(S)[k]) = k
      /\ \A x \in S : InOrder(S)[Rank(S, x)] = x
  BY InOrderIs
<1> HIDE DEF K
<1>6. InOrder(S)[K] = m
  BY <1>1, <1>4, <1>5
<1>7. ASSUME NEW k \in 1..(K - 1)
      PROVE  InOrder(S)[k] \in S /\ InOrder(S)[k] < m
  <2>1. k \in 1..K /\ k # K
    BY <1>2
  <2>2. InOrder(S)[k] \in S /\ InOrder(S)[k] # m
    BY <1>4, <1>5, <2>1
  <2>3. InOrder(S)[k] \in Int /\ m \in Int /\ m >= InOrder(S)[k]
    <3>1. \A y \in S : y \in Int
      BY BoundedFinite
    <3> QED
      BY <1>1, <2>2, <3>1
  <2> QED
    BY <2>2, <2>3
<1> QED
  BY <1>2, <1>3, <1>6, <1>7 DEF K, m
----------------------------------------------------------------------------
(* The last line of a key, in a file that gets one more line.              *)

Ported == NumberSettings \cup {"smtp_port"}

\* Whether a line gives a key a value.
Gives(line, key) == line.key = key /\ (key \in Ported => Parses(line))

Giving(f, lines, key) == {j \in lines : Gives(f[j], key)}

LEMMA LastOfIs ==
    ASSUME NEW f, NEW lines, NEW key, NEW default
    PROVE  LastOf(f, lines, key, default) =
              IF Giving(f, lines, key) = {} THEN default
              ELSE ValueOf(f[Max(Giving(f, lines, key))])
BY Zenon DEF LastOf, Giving, Gives, Ported

LEMMA FileMore ==
    ASSUME NEW f \in Seq(Lines), NEW line \in Lines
    PROVE  LET n == Len(f)
               g == Append(f, line) IN
           /\ n \in Nat /\ DOMAIN f = 1..n
           /\ g \in Seq(Lines) /\ Len(g) = n + 1 /\ DOMAIN g = 1..(n + 1)
           /\ g[n + 1] = line /\ \A i \in 1..n : g[i] = f[i]
BY AppendProperties, LenProperties

\* Lines that were there say what they said.
LEMMA LastOfSame ==
    ASSUME NEW f \in Seq(Lines), NEW line \in Lines, NEW key, NEW default,
           NEW lines \in SUBSET (1..Len(f))
    PROVE  LastOf(Append(f, line), lines, key, default) =
              LastOf(f, lines, key, default)
<1> DEFINE g == Append(f, line)
           n == Len(f)
           mine == Giving(f, lines, key)
<1>1. n \in Nat /\ \A i \in 1..n : g[i] = f[i]
  BY FileMore
<1>2. lines \subseteq 1..n
  BY Zenon
<1> HIDE DEF g, n
<1>3. \A j \in lines : g[j] = f[j]
  BY <1>1, <1>2, Zenon
<1>4. Giving(g, lines, key) = mine
  BY <1>3, Zenon DEF Giving
<1>5. mine \subseteq lines /\ mine \in SUBSET (1..n)
  BY <1>2, Zenon DEF Giving
<1> HIDE DEF mine
<1>6. CASE mine = {}
  BY <1>4, <1>6, LastOfIs, Zenon DEF mine, g
<1>7. CASE mine # {}
  <2>1. Max(mine) \in lines
    BY <1>1, <1>5, <1>7, GreatestIs
  <2>2. g[Max(mine)] = f[Max(mine)]
    BY <1>3, <2>1
  <2> QED
    BY <1>4, <1>7, <2>2, LastOfIs, Zenon DEF mine, g
<1> QED
  BY <1>6, <1>7

\* One more line gives the key its value, or leaves it.
LEMMA LastOfMore ==
    ASSUME NEW key, NEW default, NEW f \in Seq(Lines), NEW line \in Lines,
           NEW lines \in SUBSET (1..Len(f))
    PROVE  LastOf(Append(f, line), lines \cup {Len(f) + 1}, key, default) =
              IF Gives(line, key) THEN ValueOf(line)
              ELSE LastOf(f, lines, key, default)
<1> DEFINE n == Len(f)
           g == Append(f, line)
           more == lines \cup {n + 1}
           new == Giving(g, more, key)
<1>1. /\ n \in Nat /\ g[n + 1] = line /\ \A i \in 1..n : g[i] = f[i]
  BY FileMore
<1> HIDE DEF g, n
<1>2. more \in SUBSET (1..(n + 1)) /\ n + 1 \in Nat /\ n + 1 \notin lines
      /\ lines \in SUBSET (1..n)
  <2>1. lines \subseteq 1..n
    BY Zenon DEF n
  <2>2. \A j \in lines : j \in 1..n
    BY <2>1, Zenon
  <2>3. more \subseteq 1..(n + 1) /\ n + 1 \in Nat /\ n + 1 \notin lines
    BY <1>1, <2>2
  <2> QED
    BY <2>1, <2>3, Zenon
<1>3. n + 1 \in new <=> Gives(line, key)
  BY <1>1 DEF Giving
<1>4. LastOf(g, more, key, default) =
         IF new = {} THEN default ELSE ValueOf(g[Max(new)])
  BY LastOfIs, Zenon
<1>5. new \in SUBSET (1..(n + 1))
  BY <1>2 DEF Giving
<1>6. CASE n + 1 \in new
  <2> HIDE DEF new
  <2>1. Max(new) = n + 1
    BY <1>2, <1>5, <1>6, GreatestEquals
  <2> QED
    BY <1>1, <1>3, <1>4, <1>6, <2>1 DEF g, n
<1>7. CASE n + 1 \notin new
  <2>1. new = Giving(g, lines, key)
    BY <1>7, Zenon DEF Giving
  <2>2. LastOf(g, lines, key, default) =
           IF new = {} THEN default ELSE ValueOf(g[Max(new)])
    BY <2>1, LastOfIs, Zenon
  <2>3. LastOf(g, lines, key, default) = LastOf(f, lines, key, default)
    BY LastOfSame DEF g
  <2> QED
    BY <1>3, <1>4, <1>7, <2>2, <2>3, Zenon DEF g, n
<1> QED
  BY <1>6, <1>7

\* A setting is no port.
LEMMA PortIsNoSetting ==
    ASSUME NEW key \in Settings
    PROVE  key # "smtp_port"
BY DEF Settings, NumberSettings, TextSettings

\* What the last accepted value of a setting is, once a line is added.
LEMMA LastSetting ==
    ASSUME NEW key \in Settings, NEW line \in Lines, NEW default,
           NEW f \in Seq(Lines)
    PROVE  LET g == Append(f, line) IN
           LastOf(g, DOMAIN g, key, default) =
              IF line.key = key /\ ~Rejected(line) THEN ValueOf(line)
              ELSE LastOf(f, DOMAIN f, key, default)
<1>1. DOMAIN f = 1..Len(f) /\ DOMAIN Append(f, line) = 1..(Len(f) + 1)
      /\ Len(f) \in Nat
  BY FileMore
<1>2. 1..(Len(f) + 1) = (1..Len(f)) \cup {Len(f) + 1}
  BY <1>1
<1>3. Gives(line, key) <=> line.key = key /\ ~Rejected(line)
  BY PortIsNoSetting DEF Gives, Ported, Rejected
<1>4. LastOf(Append(f, line), (1..Len(f)) \cup {Len(f) + 1}, key, default) =
         IF Gives(line, key) THEN ValueOf(line)
         ELSE LastOf(f, 1..Len(f), key, default)
  BY LastOfMore
<1> QED
  BY <1>1, <1>2, <1>3, <1>4
----------------------------------------------------------------------------
(* Sections, entries and their lines, in a file that gets one more line.   *)

NoSection == ""

SectionLines(f, i) == {j \in 1..i : SectionLine(f[j])}

\* A line that opens an entry of a section, one that ends the entry before,
\* and whether the lines of an entry have ended.
OpensEntry(f, sec, line) ==
    /\ ~SectionLine(line)
    /\ SectionOf(f, Len(f)) = sec
    /\ line.key = IF sec = "devices" THEN "- name" ELSE "- type"

EndsEntry(f, sec, line) == SectionLine(line) \/ OpensEntry(f, sec, line)

Closed(f, sec, i) ==
    \E k \in (i + 1)..Len(f) : k \in Heads(f, sec) \/ SectionLine(f[k])

LEMMA SectionIs ==
    ASSUME NEW f, NEW i
    PROVE  SectionOf(f, i) = IF SectionLines(f, i) = {} THEN NoSection
                             ELSE f[Max(SectionLines(f, i))].key
BY Zenon DEF SectionOf, SectionLines, NoSection

\* A line changes the section of no line before it.
LEMMA SectionSame ==
    ASSUME NEW f \in Seq(Lines), NEW line \in Lines, NEW i \in 0..Len(f)
    PROVE  SectionOf(Append(f, line), i) = SectionOf(f, i)
<1> DEFINE g == Append(f, line)
           heads == SectionLines(f, i)
<1>1. /\ Len(f) \in Nat /\ i \in Nat
      /\ \A j \in 1..i : g[j] = f[j]
  BY FileMore
<1> HIDE DEF g
<1>2. SectionLines(g, i) = heads
  BY <1>1, Zenon DEF SectionLines
<1>3. heads \subseteq 1..i /\ heads \in SUBSET (1..i)
  BY Zenon DEF SectionLines
<1> HIDE DEF heads
<1>4. CASE heads = {}
  BY <1>2, <1>4, SectionIs, Zenon DEF heads, g
<1>5. CASE heads # {}
  <2>1. Max(heads) \in 1..i
    BY <1>1, <1>3, <1>5, GreatestIs
  <2>2. g[Max(heads)] = f[Max(heads)]
    BY <1>1, <2>1
  <2> QED
    BY <1>2, <1>5, <2>2, SectionIs, Zenon DEF heads, g
<1> QED
  BY <1>4, <1>5

\* A section line begins its section, and any other line leaves it.
LEMMA SectionMore ==
    ASSUME NEW f \in Seq(Lines), NEW line \in Lines
    PROVE  SectionOf(Append(f, line), Len(f) + 1) =
              IF SectionLine(line) THEN line.key ELSE SectionOf(f, Len(f))
<1> DEFINE g == Append(f, line)
           n == Len(f)
           heads == SectionLines(g, n + 1)
<1>1. n \in Nat /\ n + 1 \in Nat /\ g[n + 1] = line
      /\ n + 1 \in 1..(n + 1) /\ n \in 0..n
  BY FileMore
<1>2. \A j : j \in 1..(n + 1) <=> j \in 1..n \/ j = n + 1
  BY <1>1
<1> HIDE DEF g, n
<1>3. CASE SectionLine(line)
  <2>1. n + 1 \in heads /\ heads \in SUBSET (1..(n + 1))
    BY <1>1, <1>3, Zenon DEF SectionLines
  <2> HIDE DEF heads
  <2>2. Max(heads) = n + 1
    BY <1>1, <2>1, GreatestEquals
  <2>3. heads # {}
    BY <2>1
  <2> QED
    BY <1>1, <1>3, <2>2, <2>3, SectionIs, Zenon DEF heads, g, n
<1>4. CASE ~SectionLine(line)
  <2>1. heads = SectionLines(g, n)
    BY <1>1, <1>2, <1>4, Zenon DEF SectionLines
  <2>2. SectionOf(g, n + 1) = SectionOf(g, n)
    BY <2>1, SectionIs, Zenon
  <2>3. SectionOf(g, n) = SectionOf(f, n)
    BY <1>1, SectionSame DEF g, n
  <2> QED
    BY <1>4, <2>2, <2>3, Zenon DEF g, n
<1> QED
  BY <1>3, <1>4, Zenon

LEMMA HeadsMore ==
    ASSUME NEW f \in Seq(Lines), NEW line \in Lines, NEW sec
    PROVE  /\ Heads(f, sec) \subseteq 1..Len(f)
           /\ Heads(Append(f, line), sec) =
                 IF OpensEntry(f, sec, line) THEN Heads(f, sec) \cup {Len(f) + 1}
                 ELSE Heads(f, sec)
<1> DEFINE g == Append(f, line)
           n == Len(f)
           key == IF sec = "devices" THEN "- name" ELSE "- type"
<1>1. /\ n \in Nat /\ DOMAIN f = 1..n /\ DOMAIN g = 1..(n + 1)
      /\ g[n + 1] = line /\ \A i \in 1..n : g[i] = f[i]
      /\ n + 1 \notin 1..n
  BY FileMore
<1>2. \A i : i \in 1..(n + 1) <=> i \in 1..n \/ i = n + 1
  BY <1>1
<1>3. \A i \in 1..n : SectionOf(g, i) = SectionOf(f, i)
  <2>1. \A i \in 1..n : i \in 0..n
    BY <1>1
  <2> QED
    BY <2>1, SectionSame
<1>4. SectionLine(line) => line.key # key
  <2>1. SectionLine(line) => line.key \in {"devices", "notifiers"}
    BY Zenon DEF SectionLine
  <2> QED
    BY <2>1
<1>5. SectionOf(g, n + 1) = IF SectionLine(line) THEN line.key ELSE SectionOf(f, n)
  BY SectionMore
<1> HIDE DEF g, key
<1>6. /\ Heads(f, sec) = {i \in 1..n : SectionOf(f, i) = sec /\ f[i].key = key}
      /\ Heads(g, sec) = {i \in 1..(n + 1) : SectionOf(g, i) = sec /\ g[i].key = key}
  BY <1>1, Zenon DEF Heads, key
<1> HIDE DEF n
<1>7. n + 1 \in Heads(g, sec) <=> OpensEntry(f, sec, line)
  BY <1>1, <1>2, <1>4, <1>5, <1>6, Zenon DEF OpensEntry, key, n
<1>8. \A i \in 1..n : i \in Heads(g, sec) <=> i \in Heads(f, sec)
  BY <1>1, <1>2, <1>3, <1>6, Zenon
<1>9. Heads(f, sec) \subseteq 1..n /\ \A i \in Heads(g, sec) : i \in 1..n \/ i = n + 1
  BY <1>2, <1>6, Zenon
<1>10. CASE OpensEntry(f, sec, line)
  <2>1. Heads(g, sec) = Heads(f, sec) \cup {n + 1}
    BY <1>7, <1>8, <1>9, <1>10, Zenon
  <2> QED
    BY <1>9, <1>10, <2>1, Zenon DEF g, n
<1>11. CASE ~OpensEntry(f, sec, line)
  <2>1. Heads(g, sec) = Heads(f, sec)
    BY <1>7, <1>8, <1>9, <1>11, Zenon
  <2> QED
    BY <1>9, <1>11, <2>1, Zenon DEF g, n
<1> QED
  BY <1>10, <1>11, Zenon

\* The lines of an entry end where the section or another entry begins.
Stops(f, sec, k) == k \in Heads(f, sec) \/ SectionLine(f[k])

LEMMA StopsMore ==
    ASSUME NEW f \in Seq(Lines), NEW line \in Lines, NEW sec
    PROVE  /\ Stops(Append(f, line), sec, Len(f) + 1) <=> EndsEntry(f, sec, line)
           /\ \A k \in 1..Len(f) :
                 Stops(Append(f, line), sec, k) <=> Stops(f, sec, k)
<1> DEFINE g == Append(f, line)
           n == Len(f)
<1>1. /\ n \in Nat /\ g[n + 1] = line /\ \A i \in 1..n : g[i] = f[i]
      /\ n + 1 \notin 1..n
  BY FileMore
<1>2. /\ Heads(f, sec) \subseteq 1..n
      /\ Heads(g, sec) = IF OpensEntry(f, sec, line) THEN Heads(f, sec) \cup {n + 1}
                         ELSE Heads(f, sec)
  BY HeadsMore
<1>3. \A k \in 1..n : k # n + 1
  BY <1>1
<1> HIDE DEF g, n
<1>4. n + 1 \in Heads(g, sec) <=> OpensEntry(f, sec, line)
  BY <1>1, <1>2
<1>5. \A k \in 1..n : k \in Heads(g, sec) <=> k \in Heads(f, sec)
  BY <1>2, <1>3
<1> QED
  BY <1>1, <1>4, <1>5, Zenon DEF Stops, EndsEntry, g, n

LEMMA BlockMore ==
    ASSUME NEW f \in Seq(Lines), NEW line \in Lines, NEW sec,
           NEW i \in 1..Len(f)
    PROVE  /\ Block(f, sec, i) \subseteq 1..Len(f)
           /\ Block(Append(f, line), sec, i) =
                 IF EndsEntry(f, sec, line) \/ Closed(f, sec, i) THEN Block(f, sec, i)
                 ELSE Block(f, sec, i) \cup {Len(f) + 1}
           /\ Closed(Append(f, line), sec, i) <=>
                 Closed(f, sec, i) \/ EndsEntry(f, sec, line)
<1> DEFINE g == Append(f, line)
           n == Len(f)
<1>1. /\ n \in Nat /\ Len(g) = n + 1
      /\ n + 1 \notin 1..n
  BY FileMore
<1>2. /\ Stops(g, sec, n + 1) <=> EndsEntry(f, sec, line)
      /\ \A k \in 1..n : Stops(g, sec, k) <=> Stops(f, sec, k)
  BY StopsMore
<1> HIDE DEF g, n
<1>3. i \in 1..n
  BY DEF n
<1>4. /\ \A k : k \in (i + 1)..(n + 1) <=> k \in (i + 1)..n \/ k = n + 1
      /\ \A k \in (i + 1)..n : k \in 1..n /\ \A j \in (i + 1)..k : j \in (i + 1)..n
      /\ n + 1 \notin (i + 1)..n
  BY <1>1, <1>3
<1>5. /\ Block(f, sec, i) =
            {j \in (i + 1)..n : \A k \in (i + 1)..j : ~Stops(f, sec, k)}
      /\ Block(g, sec, i) =
            {j \in (i + 1)..(n + 1) : \A k \in (i + 1)..j : ~Stops(g, sec, k)}
      /\ Closed(f, sec, i) <=> \E k \in (i + 1)..n : Stops(f, sec, k)
      /\ Closed(g, sec, i) <=> \E k \in (i + 1)..(n + 1) : Stops(g, sec, k)
  BY <1>1, Zenon DEF Block, Closed, Stops, n
<1>6. Block(f, sec, i) \subseteq 1..n
  BY <1>4, <1>5, Zenon
<1>7. Closed(g, sec, i) <=> Closed(f, sec, i) \/ EndsEntry(f, sec, line)
  BY <1>2, <1>4, <1>5, Zenon
<1>8. \A j \in (i + 1)..n : j \in Block(g, sec, i) <=> j \in Block(f, sec, i)
  BY <1>2, <1>4, <1>5, Zenon
<1>9. n + 1 \in Block(g, sec, i) <=> ~(Closed(f, sec, i) \/ EndsEntry(f, sec, line))
  BY <1>5, <1>7, <1>4, Zenon
<1>10. /\ \A j \in Block(g, sec, i) : j \in (i + 1)..n \/ j = n + 1
       /\ \A j \in Block(f, sec, i) : j \in (i + 1)..n
  BY <1>4, <1>5, Zenon
<1>11. CASE EndsEntry(f, sec, line) \/ Closed(f, sec, i)
  <2>1. Block(g, sec, i) = Block(f, sec, i)
    BY <1>8, <1>9, <1>10, <1>11, Zenon
  <2> QED
    BY <1>6, <1>7, <1>11, <2>1, Zenon DEF g, n
<1>12. CASE ~(EndsEntry(f, sec, line) \/ Closed(f, sec, i))
  <2>1. Block(g, sec, i) = Block(f, sec, i) \cup {n + 1}
    BY <1>8, <1>9, <1>10, <1>12, Zenon
  <2> QED
    BY <1>6, <1>7, <1>12, <2>1, Zenon DEF g, n
<1> QED
  BY <1>11, <1>12, Zenon

\* The entry of the last line has no lines yet.
LEMMA BlockFresh ==
    ASSUME NEW f \in Seq(Lines), NEW line \in Lines, NEW sec
    PROVE  /\ Block(Append(f, line), sec, Len(f) + 1) = {}
           /\ ~Closed(Append(f, line), sec, Len(f) + 1)
<1>1. Len(f) \in Nat /\ Len(Append(f, line)) = Len(f) + 1
  BY FileMore
<1>2. (Len(f) + 1 + 1)..(Len(f) + 1) = {}
  BY <1>1
<1> QED
  BY <1>1, <1>2, Zenon DEF Block, Closed

\* All entries but the newest have ended.
LEMMA OlderClosed ==
    ASSUME NEW f \in Seq(Lines), NEW sec,
           NEW i \in Heads(f, sec), NEW k \in Heads(f, sec), i < k
    PROVE  Closed(f, sec, i)
<1>1. DOMAIN f = 1..Len(f) /\ Len(f) \in Nat
  BY LenProperties
<1>2. i \in DOMAIN f /\ k \in DOMAIN f
  BY Zenon DEF Heads
<1>3. k \in (i + 1)..Len(f)
  BY <1>1, <1>2
<1> QED
  BY <1>3, Zenon DEF Closed

----------------------------------------------------------------------------
(* The entries in the order of their first lines.                          *)

\* A sequence with one element more.
Longer(s, x) ==
    [m \in 1..(Len(s) + 1) |-> IF m = Len(s) + 1 THEN x ELSE s[m]]

LEMMA AddedLast ==
    ASSUME NEW s, IsSeq(s), NEW x
    PROVE  /\ Len(s) \in Nat /\ DOMAIN s = 1..Len(s)
           /\ s = [m \in 1..Len(s) |-> s[m]]
           /\ IsSeq(s \o <<x>>)
           /\ s \o <<x>> = Longer(s, x)
           /\ s \o << >> = s
<1> DEFINE S == {s[i] : i \in DOMAIN s} \cup {x}
           n == Len(s)
<1>1. s \in Seq({s[i] : i \in DOMAIN s})
  BY Zenon DEF IsSeq
<1> DEFINE R == {s[i] : i \in DOMAIN s}
<1>2. s \in Seq(R)
  BY <1>1
<1> HIDE DEF R
<1>3. s \in Seq(R \cup {x}) /\ <<x>> \in Seq(R \cup {x})
  BY <1>2
<1>4. n \in Nat /\ DOMAIN s = 1..n /\ s = [m \in 1..n |-> s[m]]
  BY <1>2, LenProperties
<1>5. s \o <<x>> \in Seq(R \cup {x})
  BY <1>3
<1>6. Len(s \o <<x>>) = n + 1
      /\ (\A m \in 1..(n + 1) : (s \o <<x>>)[m] = IF m = n + 1 THEN x ELSE s[m])
  BY <1>3, <1>4
<1>7. s \o <<x>> = [m \in 1..(n + 1) |-> (s \o <<x>>)[m]]
  BY <1>5, <1>6, LenProperties
<1>8. s \o <<x>> = [m \in 1..(n + 1) |-> IF m = n + 1 THEN x ELSE s[m]]
  BY <1>6, <1>7
<1>9. IsSeq(s \o <<x>>)
  BY <1>5, IsSeqOf
<1>10. s \o << >> = s
  BY <1>2
<1>11. s \o <<x>> = Longer(s, x)
  BY <1>8, Zenon DEF Longer
<1> QED
  BY <1>4, <1>9, <1>10, <1>11

\* What is read of each entry, in their order.
Listed(f, sec, e) ==
    LET heads == InOrder(Heads(f, sec)) IN [m \in DOMAIN heads |-> e[heads[m]]]

LEMMA ListedTyped ==
    ASSUME NEW f \in Seq(Lines), NEW sec, NEW e
    PROVE  IsSeq(Listed(f, sec, e))
<1> DEFINE o == InOrder(Heads(f, sec))
           K == Cardinality(Heads(f, sec))
<1>1. Heads(f, sec) \in SUBSET (1..Len(f)) /\ Len(f) \in Nat
  BY LenProperties, Zenon DEF Heads
<1>2. DOMAIN o = 1..K /\ K \in Nat
  BY <1>1, InOrderIs, BoundedFinite
<1> HIDE DEF o, K
<1> DEFINE R == {e[o[m]] : m \in 1..K}
<1>3. \A m \in 1..K : e[o[m]] \in R
  OBVIOUS
<1> HIDE DEF R
<1>4. [m \in 1..K |-> e[o[m]]] \in Seq(R)
  BY <1>2, <1>3
<1>5. Listed(f, sec, e) = [m \in 1..K |-> e[o[m]]]
  BY <1>2 DEF Listed, o
<1> QED
  BY <1>4, <1>5, IsSeqOf

\* A line that opens an entry adds it to those before.
LEMMA ListedOpens ==
    ASSUME NEW f \in Seq(Lines), NEW line \in Lines, NEW sec, NEW e, NEW e2,
           OpensEntry(f, sec, line), \A i \in Heads(f, sec) : e2[i] = e[i]
    PROVE  Listed(Append(f, line), sec, e2) =
              Listed(f, sec, e) \o <<e2[Len(f) + 1]>>
<1> DEFINE H == Heads(f, sec)
           n == Len(f)
           K == Cardinality(H)
           T == H \cup {n + 1}
           L == Listed(f, sec, e)
           M == Listed(Append(f, line), sec, e2)
<1>1. H \in SUBSET (1..n) /\ n \in Nat /\ Heads(Append(f, line), sec) = T
  BY LenProperties, HeadsMore
<1> HIDE DEF n, H
<1>2. /\ K \in Nat
      /\ DOMAIN InOrder(H) = 1..K /\ DOMAIN InOrder(T) = 1..(K + 1)
      /\ \A k \in 1..K : InOrder(H)[k] \in H
      /\ \A k \in 1..K : InOrder(T)[k] = InOrder(H)[k]
      /\ InOrder(T)[K + 1] = n + 1
  BY <1>1, InOrderMore
<1> HIDE DEF K
<1>3. L = [m \in 1..K |-> e[InOrder(H)[m]]]
  BY <1>2, Zenon DEF Listed, H
<1>4. M = [m \in 1..(K + 1) |-> e2[InOrder(T)[m]]]
  BY <1>1, <1>2, Zenon DEF Listed
<1>5. \A m \in 1..(K + 1) : m \in 1..K \/ m = K + 1
  BY <1>2
<1>6. \A m \in 1..K : e2[InOrder(T)[m]] = e[InOrder(H)[m]]
  BY <1>2, Zenon DEF H
<1>7. IsSeq(L)
  BY ListedTyped
<1> HIDE DEF L
<1>8. L \o <<e2[n + 1]>> =
         [m \in 1..(Len(L) + 1) |-> IF m = Len(L) + 1 THEN e2[n + 1] ELSE L[m]]
  <2>1. L \o <<e2[n + 1]>> = Longer(L, e2[n + 1])
    BY <1>7, AddedLast, Zenon
  <2> QED
    BY <2>1, Zenon DEF Longer
<1>9. Len(L) = K
  <2>1. DOMAIN L = 1..K /\ DOMAIN L = 1..Len(L) /\ Len(L) \in Nat
    BY <1>3, <1>7, SeqLength
  <2> QED
    BY <1>2, <2>1
<1>10. \A m \in 1..(K + 1) :
          e2[InOrder(T)[m]] = IF m = K + 1 THEN e2[n + 1] ELSE L[m]
  BY <1>2, <1>3, <1>5, <1>6
<1>11. M = [m \in 1..(K + 1) |-> IF m = K + 1 THEN e2[n + 1] ELSE L[m]]
  BY <1>4, <1>10, Zenon
<1> QED
  BY <1>8, <1>9, <1>11, Zenon DEF L, n

\* A line that opens none, and says nothing of those there are.
LEMMA ListedSame ==
    ASSUME NEW f \in Seq(Lines), NEW line \in Lines, NEW sec, NEW e, NEW e2,
           ~OpensEntry(f, sec, line), \A i \in Heads(f, sec) : e2[i] = e[i]
    PROVE  Listed(Append(f, line), sec, e2) = Listed(f, sec, e)
<1> DEFINE o == InOrder(Heads(f, sec))
<1>1. Heads(Append(f, line), sec) = Heads(f, sec)
  BY HeadsMore
<1>2. \A m \in DOMAIN o : o[m] \in Heads(f, sec)
  <2> DEFINE H == Heads(f, sec)
  <2>1. H \in SUBSET (1..Len(f)) /\ Len(f) \in Nat
    BY LenProperties, HeadsMore
  <2> HIDE DEF H
  <2>2. /\ DOMAIN InOrder(H) = 1..Cardinality(H)
        /\ \A k \in 1..Cardinality(H) : InOrder(H)[k] \in H
    BY <2>1, InOrderIs
  <2> QED
    BY <2>2, Zenon DEF H
<1> QED
  BY <1>1, <1>2, Zenon DEF Listed

\* A line that opens none, and says something of the newest only.
OthersSame(f, sec, e, e2) ==
    \A i \in Heads(f, sec) : i < Max(Heads(f, sec)) => e2[i] = e[i]

LEMMA ListedLast ==
    ASSUME NEW f \in Seq(Lines), NEW line \in Lines, NEW sec, NEW e, NEW e2,
           ~OpensEntry(f, sec, line), Heads(f, sec) # {},
           OthersSame(f, sec, e, e2)
    PROVE  \A s, x : IsSeq(s) /\ s \o <<x>> = Listed(f, sec, e) =>
              Listed(Append(f, line), sec, e2) = s \o <<e2[Max(Heads(f, sec))]>>
<1> SUFFICES ASSUME NEW s, NEW x, IsSeq(s), s \o <<x>> = Listed(f, sec, e)
             PROVE  Listed(Append(f, line), sec, e2) =
                       s \o <<e2[Max(Heads(f, sec))]>>
  BY Zenon
<1> DEFINE H == Heads(f, sec)
           K == Cardinality(H)
           o == InOrder(H)
           top == Max(H)
           L == Listed(f, sec, e)
<1>1. H \in SUBSET (1..Len(f)) /\ Len(f) \in Nat
  BY LenProperties, HeadsMore
<1>2. /\ K \in Nat \ {0} /\ o[K] = top
      /\ \A k \in 1..(K - 1) : o[k] \in H /\ o[k] < top
  BY <1>1, InOrderTop
<1>3. DOMAIN o = 1..K
  BY <1>1, InOrderIs
<1>4. Heads(Append(f, line), sec) = H
  BY HeadsMore
<1> HIDE DEF K, top, o
<1>5. L = [m \in 1..K |-> e[o[m]]]
  BY <1>3, Zenon DEF Listed, o
<1>6. Listed(Append(f, line), sec, e2) = [m \in 1..K |-> e2[o[m]]]
  BY <1>3, <1>4, Zenon DEF Listed, o
<1>7. \A k \in 1..(K - 1) : e2[o[k]] = e[o[k]]
  BY <1>2, Zenon DEF top, OthersSame
<1>8. /\ Len(s) \in Nat
      /\ L = [m \in 1..(Len(s) + 1) |-> IF m = Len(s) + 1 THEN x ELSE s[m]]
      /\ s \o <<e2[top]>> = [m \in 1..(Len(s) + 1) |->
                               IF m = Len(s) + 1 THEN e2[top] ELSE s[m]]
  <2>1. Len(s) \in Nat /\ L = s \o <<x>>
    BY AddedLast, Zenon
  <2>2. s \o <<x>> = [m \in 1..(Len(s) + 1) |->
                          IF m = Len(s) + 1 THEN x ELSE s[m]]
    <3>1. s \o <<x>> = Longer(s, x)
      BY AddedLast, Zenon
    <3> QED
      BY <3>1, Zenon DEF Longer
  <2>3. s \o <<e2[top]>> = [m \in 1..(Len(s) + 1) |->
                               IF m = Len(s) + 1 THEN e2[top] ELSE s[m]]
    <3>1. s \o <<e2[top]>> = Longer(s, e2[top])
      BY AddedLast, Zenon
    <3> QED
      BY <3>1, Zenon DEF Longer
  <2> QED
    BY <2>1, <2>2, <2>3, Zenon
<1> HIDE DEF L
<1>9. Len(s) + 1 = K
  <2>1. DOMAIN L = 1..K /\ DOMAIN L = 1..(Len(s) + 1)
    BY <1>5, <1>8
  <2> QED
    BY <1>2, <1>8, <2>1
<1>11. \A m \in 1..K : e2[o[m]] = IF m = K THEN e2[top] ELSE s[m]
  <2>1. \A m \in 1..K : m = K \/ m \in 1..(K - 1)
    BY <1>2
  <2>2. \A m \in 1..(K - 1) : m # K /\ m \in 1..K
    BY <1>2
  <2>3. \A m \in 1..(K - 1) : L[m] = e[o[m]] /\ L[m] = s[m]
    BY <1>5, <1>8, <1>9, <2>2
  <2> QED
    BY <1>2, <1>7, <2>1, <2>2, <2>3, Zenon
<1>12. Listed(Append(f, line), sec, e2) =
          [m \in 1..K |-> IF m = K THEN e2[top] ELSE s[m]]
  BY <1>6, <1>11, Zenon
<1> QED
  BY <1>8, <1>9, <1>12, Zenon DEF top

----------------------------------------------------------------------------
(* What the file says of one device, and one more line of it.              *)

FieldsOfDevice == {"name"} \cup DeviceFields \cup DeviceFlags

DeviceField(f, i, block, field) ==
    IF field = "name" THEN ValueOf(f[i])
    ELSE IF field \in DeviceFlags THEN LastOf(f, block, field, Unset) = Text("true")
    ELSE LastOf(f, block, field, NewDevice(f[i])[field])

LEMMA DeviceIs ==
    ASSUME NEW f, NEW i, NEW block
    PROVE  Device(f, i, block) =
              [field \in FieldsOfDevice |-> DeviceField(f, i, block, field)]
BY Zenon DEF Device, DeviceField, FieldsOfDevice

\* A device with one more line.
DeviceWith(d, line) ==
    IF line.key \in DeviceFields \cup DeviceFlags
    THEN [d EXCEPT ![line.key] =
             IF line.key \in DeviceFlags
             THEN ValueOf(line) = Text("true") ELSE ValueOf(line)]
    ELSE d

LEMMA DeviceSame ==
    ASSUME NEW f \in Seq(Lines), NEW line \in Lines, NEW i \in 1..Len(f),
           NEW block \in SUBSET (1..Len(f))
    PROVE  Device(Append(f, line), i, block) = Device(f, i, block)
<1> DEFINE g == Append(f, line)
<1>1. g[i] = f[i]
  BY FileMore
<1>2. \A key, default : LastOf(g, block, key, default) = LastOf(f, block, key, default)
  BY LastOfSame
<1> HIDE DEF g
<1>3. \A field : DeviceField(g, i, block, field) = DeviceField(f, i, block, field)
  BY <1>1, <1>2, Zenon DEF DeviceField
<1> QED
  BY <1>3, DeviceIs, Zenon DEF g

LEMMA NoPort ==
    /\ "name" \notin DeviceFields \cup DeviceFlags
    /\ \A key \in DeviceFields \cup DeviceFlags \cup NotifierFields :
          key \notin Ported
    /\ DeviceFlags \cap DeviceFields = {}
BY DEF DeviceFields, DeviceFlags, NotifierFields, Ported, NumberSettings

LEMMA DeviceMore ==
    ASSUME NEW f \in Seq(Lines), NEW line \in Lines, NEW i \in 1..Len(f),
           NEW block \in SUBSET (1..Len(f))
    PROVE  Device(Append(f, line), i, block \cup {Len(f) + 1}) =
              DeviceWith(Device(f, i, block), line)
<1> DEFINE g == Append(f, line)
           more == block \cup {Len(f) + 1}
           d == Device(f, i, block)
           fields == DeviceFields \cup DeviceFlags
           new == IF line.key \in DeviceFlags
                  THEN ValueOf(line) = Text("true") ELSE ValueOf(line)
<1>1. g[i] = f[i]
  BY FileMore
<1>2. \A key, default : LastOf(g, more, key, default) =
                           IF Gives(line, key) THEN ValueOf(line)
                           ELSE LastOf(f, block, key, default)
  BY LastOfMore
<1>3. d = [field \in FieldsOfDevice |-> DeviceField(f, i, block, field)]
      /\ Device(g, i, more) =
            [field \in FieldsOfDevice |-> DeviceField(g, i, more, field)]
  BY DeviceIs
<1> HIDE DEF g, more, d
<1>4. /\ \A field \in FieldsOfDevice : field = "name" \/ field \in fields
      /\ fields \subseteq FieldsOfDevice /\ "name" \notin fields
  BY NoPort, Zenon DEF FieldsOfDevice
<1>5. \A field \in fields : Gives(line, field) <=> line.key = field
  BY NoPort, Zenon DEF Gives
<1>6. DeviceField(g, i, more, "name") = DeviceField(f, i, block, "name")
  BY <1>1, Zenon DEF DeviceField
<1>7. \A field \in fields : line.key # field =>
         DeviceField(g, i, more, field) = DeviceField(f, i, block, field)
  BY <1>1, <1>2, <1>5, Zenon DEF DeviceField
<1>8. line.key \in fields => DeviceField(g, i, more, line.key) = new
  BY <1>2, <1>4, <1>5, Zenon DEF DeviceField
<1> HIDE DEF new
<1>9. CASE line.key \in fields
  <2>1. \A field \in FieldsOfDevice : DeviceField(g, i, more, field) =
           IF field = line.key THEN new ELSE d[field]
    BY <1>3, <1>4, <1>6, <1>7, <1>8, <1>9, Zenon
  <2>2. [d EXCEPT ![line.key] = new] =
           [field \in FieldsOfDevice |->
               IF field = line.key THEN new ELSE d[field]]
    BY <1>3, <1>4, <1>9
  <2>3. Device(g, i, more) = [d EXCEPT ![line.key] = new]
    BY <1>3, <2>1, <2>2, Zenon
  <2> QED
    BY <1>9, <2>3, Zenon DEF DeviceWith, new, g, more, d
<1>10. CASE line.key \notin fields
  <2>1. \A field \in FieldsOfDevice :
           DeviceField(g, i, more, field) = DeviceField(f, i, block, field)
    BY <1>4, <1>6, <1>7, <1>10, Zenon
  <2>2. Device(g, i, more) = d
    BY <1>3, <2>1, Zenon
  <2> QED
    BY <1>10, <2>2, Zenon DEF DeviceWith, g, more, d
<1> QED
  BY <1>9, <1>10

LEMMA UnsetIsNotTrue == Unset # Text("true")
<1>1. Unset.text = "" /\ Text("true").text = "true"
  BY Zenon DEF Unset, Text
<1>2. "" # "true"
  BY Zenon
<1> QED
  BY <1>1, <1>2, Zenon

LEMMA LastOfNone ==
    ASSUME NEW f, NEW key, NEW default
    PROVE  LastOf(f, {}, key, default) = default
<1>1. Giving(f, {}, key) = {}
  BY Zenon DEF Giving
<1> QED
  BY <1>1, LastOfIs, Zenon

LEMMA DeviceFresh ==
    ASSUME NEW f \in Seq(Lines), NEW line \in Lines
    PROVE  Device(Append(f, line), Len(f) + 1, {}) = NewDevice(line)
<1> DEFINE g == Append(f, line)
           n == Len(f)
<1>1. g[n + 1] = line
  BY FileMore
<1> HIDE DEF g, n
<1>2. \A field : DeviceField(g, n + 1, {}, field) =
         IF field = "name" THEN ValueOf(line)
         ELSE IF field \in DeviceFlags THEN FALSE ELSE NewDevice(line)[field]
  <2>1. (Unset = Text("true")) = FALSE
    BY UnsetIsNotTrue
  <2>2. \A key, default : LastOf(g, {}, key, default) = default
    BY LastOfNone
  <2>3. \A key : (LastOf(g, {}, key, Unset) = Text("true")) = FALSE
    BY <2>1, <2>2, Zenon
  <2> QED
    BY <1>1, <2>2, <2>3, Zenon DEF DeviceField
<1>3. /\ NewDevice(line).name = ValueOf(line)
      /\ \A field \in DeviceFlags : NewDevice(line)[field] = FALSE
      /\ DOMAIN NewDevice(line) = FieldsOfDevice
      /\ NewDevice(line) = [field \in FieldsOfDevice |-> NewDevice(line)[field]]
  BY DEF NewDevice, FieldsOfDevice, DeviceFields, DeviceFlags
<1>4. \A field : DeviceField(g, n + 1, {}, field) = NewDevice(line)[field]
  BY <1>2, <1>3, Zenon
<1> QED
  BY <1>3, <1>4, DeviceIs, Zenon DEF g, n

----------------------------------------------------------------------------
(* The same of a notifier.                                                 *)

FieldsOfNotifier == NotifierFields \cup {"type", "smtp_port", "to"}

\* Whether a line of a notifier lists an address, and all that are listed.
Lists(line) == line.key = "to" /\ ValueOf(line) # Unset

Addresses(f, block) ==
    LET to == At(f, AddressLines(f, block)) IN [m \in DOMAIN to |-> ValueOf(to[m])]

LEMMA AddressesAre ==
    ASSUME NEW f \in Seq(Lines), NEW block \in SUBSET (1..Len(f))
    PROVE  /\ AddressLines(f, block) \in SUBSET (1..Len(f))
           /\ Addresses(f, block) =
                 [m \in 1..Cardinality(AddressLines(f, block)) |->
                     ValueOf(f[InOrder(AddressLines(f, block))[m]])]
           /\ \A m \in 1..Cardinality(AddressLines(f, block)) :
                 InOrder(AddressLines(f, block))[m] \in AddressLines(f, block)
           /\ IsSeq(Addresses(f, block))
<1> DEFINE A == AddressLines(f, block)
           K == Cardinality(A)
           s == [m \in 1..K |-> ValueOf(f[InOrder(A)[m]])]
<1>1. Len(f) \in Nat
  BY LenProperties
<1>2. A \in SUBSET (1..Len(f))
  BY Zenon DEF AddressLines
<1> HIDE DEF A
<1>3. K \in Nat
  BY <1>1, <1>2, BoundedFinite
<1>4. \A m \in 1..K : InOrder(A)[m] \in A
  BY <1>1, <1>2, InOrderIs
<1>5. At(f, A) = [m \in 1..K |-> f[InOrder(A)[m]]]
  BY Zenon DEF At
<1>6. Addresses(f, block) = s
  <2>1. DOMAIN At(f, A) = 1..K /\ \A m \in 1..K : At(f, A)[m] = f[InOrder(A)[m]]
    BY <1>5, Zenon
  <2> QED
    BY <2>1, Zenon DEF Addresses, A
<1>7. IsSeq(s)
  <2> HIDE DEF K
  <2> DEFINE R == {s[m] : m \in 1..K}
  <2>1. \A m \in 1..K : ValueOf(f[InOrder(A)[m]]) \in R
    OBVIOUS
  <2> HIDE DEF R
  <2>2. s \in Seq(R)
    BY <1>3, <2>1
  <2> QED
    BY <2>2, IsSeqOf
<1> QED
  BY <1>2, <1>4, <1>6, <1>7, Zenon DEF A

LEMMA AddressesSame ==
    ASSUME NEW f \in Seq(Lines), NEW line \in Lines,
           NEW block \in SUBSET (1..Len(f))
    PROVE  Addresses(Append(f, line), block) = Addresses(f, block)
<1> DEFINE g == Append(f, line)
           A == AddressLines(f, block)
<1>1. /\ Len(f) \in Nat /\ \A j \in 1..Len(f) : g[j] = f[j]
      /\ g \in Seq(Lines) /\ Len(g) = Len(f) + 1
  BY FileMore
<1>2. \A j \in block : g[j] = f[j]
  BY <1>1, Zenon
<1>3. block \in SUBSET (1..Len(g))
  <2>1. \A j \in block : j \in 1..Len(f)
    BY Zenon
  <2>2. \A j \in block : j \in 1..(Len(f) + 1)
    BY <1>1, <2>1
  <2> QED
    BY <1>1, <2>2
<1> HIDE DEF g
<1>4. AddressLines(g, block) = A
  BY <1>2, Zenon DEF AddressLines
<1>5. Addresses(g, block) =
         [m \in 1..Cardinality(AddressLines(g, block)) |->
             ValueOf(g[InOrder(AddressLines(g, block))[m]])]
  BY <1>1, <1>3, AddressesAre
<1>6. Addresses(f, block) =
         [m \in 1..Cardinality(A) |-> ValueOf(f[InOrder(A)[m]])]
  BY AddressesAre
<1>7. \A m \in 1..Cardinality(A) : InOrder(A)[m] \in A
  BY AddressesAre
<1>8. A \subseteq block
  BY Zenon DEF AddressLines
<1> HIDE DEF A
<1>9. \A m \in 1..Cardinality(A) : g[InOrder(A)[m]] = f[InOrder(A)[m]]
  BY <1>2, <1>7, <1>8, Zenon
<1> QED
  BY <1>4, <1>5, <1>6, <1>9, Zenon DEF g

LEMMA AddressesMore ==
    ASSUME NEW f \in Seq(Lines), NEW line \in Lines,
           NEW block \in SUBSET (1..Len(f))
    PROVE  Addresses(Append(f, line), block \cup {Len(f) + 1}) =
              IF Lists(line) THEN Append(Addresses(f, block), ValueOf(line))
              ELSE Addresses(f, block)
<1> DEFINE g == Append(f, line)
           n == Len(f)
           more == block \cup {n + 1}
           A == AddressLines(f, block)
           B == AddressLines(g, more)
           K == Cardinality(A)
           s == Addresses(f, block)
<1>1. /\ n \in Nat /\ g[n + 1] = line /\ \A j \in 1..n : g[j] = f[j]
      /\ g \in Seq(Lines) /\ Len(g) = n + 1
  BY FileMore
<1>2. block \in SUBSET (1..n) /\ \A j \in block : j \in 1..n
  BY Zenon
<1>3. \A j \in block : g[j] = f[j]
  BY <1>1, <1>2, Zenon
<1>4. s = [m \in 1..K |-> ValueOf(f[InOrder(A)[m]])]
  BY AddressesAre
<1>5. (\A m \in 1..K : InOrder(A)[m] \in A) /\ IsSeq(s) /\ A \in SUBSET (1..n)
  BY AddressesAre
<1> HIDE DEF g, n
<1>6. Addresses(g, more) = [m \in 1..Cardinality(B) |-> ValueOf(g[InOrder(B)[m]])]
  <2>1. \A j \in more : j \in 1..(n + 1)
    BY <1>1, <1>2
  <2>2. more \in SUBSET (1..Len(g))
    BY <1>1, <2>1, Zenon
  <2> HIDE DEF more
  <2> QED
    BY <1>1, <2>2, AddressesAre
<1>7. \A m \in 1..K : g[InOrder(A)[m]] = f[InOrder(A)[m]]
  <2>1. A \subseteq block
    BY Zenon DEF AddressLines
  <2> HIDE DEF A
  <2> QED
    BY <1>3, <1>5, <2>1, Zenon
<1>8. CASE ~Lists(line)
  <2>1. B = A
    BY <1>1, <1>3, <1>8, Zenon DEF AddressLines, Lists
  <2> HIDE DEF A, B, s
  <2>2. Addresses(g, more) = [m \in 1..K |-> ValueOf(g[InOrder(A)[m]])]
    BY <1>6, <2>1, Zenon
  <2>3. Addresses(g, more) = s
    BY <1>4, <1>7, <2>2, Zenon
  <2> QED
    BY <1>8, <2>3, Zenon DEF g, n, s
<1>9. CASE Lists(line)
  <2>1. B = A \cup {n + 1}
    BY <1>1, <1>3, <1>9, Zenon DEF AddressLines, Lists
  <2> HIDE DEF A, B
  <2>2. /\ K \in Nat /\ Cardinality(B) = K + 1
        /\ \A k \in 1..K : InOrder(B)[k] = InOrder(A)[k]
        /\ InOrder(B)[K + 1] = n + 1
    BY <1>1, <1>5, <2>1, InOrderMore
  <2> HIDE DEF s, K
  <2>3. s \o <<ValueOf(line)>> =
           [m \in 1..(Len(s) + 1) |->
               IF m = Len(s) + 1 THEN ValueOf(line) ELSE s[m]]
    <3>1. s \o <<ValueOf(line)>> = Longer(s, ValueOf(line))
      BY <1>5, AddedLast, Zenon
    <3> QED
      BY <3>1, Zenon DEF Longer
  <2>4. Len(s) = K
    <3>1. DOMAIN s = 1..K
      BY <1>4
    <3>2. DOMAIN s = 1..Len(s) /\ Len(s) \in Nat
      BY <1>5, SeqLength
    <3> QED
      BY <2>2, <3>1, <3>2
  <2>5. \A m \in 1..(K + 1) :
           ValueOf(g[InOrder(B)[m]]) = IF m = K + 1 THEN ValueOf(line) ELSE s[m]
    <3>1. \A m \in 1..(K + 1) : m = K + 1 \/ m \in 1..K
      BY <2>2
    <3>2. \A m \in 1..K : m # K + 1 /\ s[m] = ValueOf(g[InOrder(B)[m]])
      <4>1. \A m \in 1..K : m # K + 1
        BY <2>2
      <4>2. \A m \in 1..K : s[m] = ValueOf(f[InOrder(A)[m]])
        BY <1>4
      <4> QED
        BY <1>7, <2>2, <4>1, <4>2, Zenon
    <3> QED
      BY <1>1, <2>2, <3>1, <3>2, Zenon
  <2>6. Addresses(g, more) =
           [m \in 1..(K + 1) |-> IF m = K + 1 THEN ValueOf(line) ELSE s[m]]
    BY <1>6, <2>2, <2>5, Zenon
  <2>7. Append(s, ValueOf(line)) = s \o <<ValueOf(line)>>
    <3>1. s \in Seq({s[m] : m \in DOMAIN s})
      BY <1>5, Zenon DEF IsSeq
    <3> DEFINE R == {s[m] : m \in DOMAIN s}
    <3>2. s \in Seq(R)
      BY <3>1
    <3> HIDE DEF R
    <3> QED
      BY <3>2
  <2> QED
    BY <1>9, <2>3, <2>4, <2>6, <2>7, Zenon DEF g, n, s
<1> QED
  BY <1>8, <1>9

NotifierField(f, i, block, field) ==
    IF field = "type" THEN ValueOf(f[i])
    ELSE IF field = "to" THEN Addresses(f, block)
    ELSE LastOf(f, block, field, Unset)

LEMMA NotifierIs ==
    ASSUME NEW f, NEW i, NEW block
    PROVE  WrittenNotifier(f, i, block) =
              [field \in FieldsOfNotifier |-> NotifierField(f, i, block, field)]
BY Zenon DEF WrittenNotifier, NotifierField, FieldsOfNotifier, Addresses

LEMMA NotifierSame ==
    ASSUME NEW f \in Seq(Lines), NEW line \in Lines, NEW i \in 1..Len(f),
           NEW block \in SUBSET (1..Len(f))
    PROVE  WrittenNotifier(Append(f, line), i, block) = WrittenNotifier(f, i, block)
<1> DEFINE g == Append(f, line)
<1>1. g[i] = f[i]
  BY FileMore
<1>2. \A key, default : LastOf(g, block, key, default) = LastOf(f, block, key, default)
  BY LastOfSame
<1>3. Addresses(g, block) = Addresses(f, block)
  BY AddressesSame
<1> HIDE DEF g
<1>4. \A field : NotifierField(g, i, block, field) = NotifierField(f, i, block, field)
  BY <1>1, <1>2, <1>3, Zenon DEF NotifierField
<1> QED
  BY <1>4, NotifierIs, Zenon DEF g

\* What a line of a notifier sets, and to what.
Changed(line) ==
    IF \/ line.key \in NotifierFields
       \/ line.key = "smtp_port" /\ Parses(line)
       \/ Lists(line)
    THEN {line.key} ELSE {}

ChangedTo(n, line) ==
    IF line.key = "to" THEN Append(n.to, ValueOf(line)) ELSE ValueOf(line)

LEMMA WithFieldIs ==
    ASSUME NEW n, DOMAIN n = FieldsOfNotifier, NEW line,
           n = [field \in FieldsOfNotifier |-> n[field]]
    PROVE  WithField(n, line) =
              [field \in FieldsOfNotifier |->
                  IF field \in Changed(line) THEN ChangedTo(n, line) ELSE n[field]]
<1>1. "smtp_port" \notin NotifierFields /\ "to" \notin NotifierFields
      /\ "smtp_port" # "to"
  BY DEF NotifierFields
<1>2. CASE line.key \in NotifierFields
  <2>1. WithField(n, line) = [n EXCEPT ![line.key] = ValueOf(line)]
    BY <1>1, <1>2 DEF WithField
  <2>2. Changed(line) = {line.key} /\ ChangedTo(n, line) = ValueOf(line)
    BY <1>1, <1>2, Zenon DEF Changed, ChangedTo
  <2>3. [n EXCEPT ![line.key] = ValueOf(line)] =
           [field \in FieldsOfNotifier |->
               IF field = line.key THEN ValueOf(line) ELSE n[field]]
    OBVIOUS
  <2> QED
    BY <2>1, <2>2, <2>3
<1>3. CASE line.key = "smtp_port" /\ Parses(line)
  <2>1. WithField(n, line) = [n EXCEPT !.smtp_port = ValueOf(line)]
    BY <1>1, <1>3 DEF WithField
  <2>2. Changed(line) = {"smtp_port"} /\ ChangedTo(n, line) = ValueOf(line)
    BY <1>1, <1>3, Zenon DEF Changed, ChangedTo
  <2>3. [n EXCEPT !.smtp_port = ValueOf(line)] =
           [field \in FieldsOfNotifier |->
               IF field = "smtp_port" THEN ValueOf(line) ELSE n[field]]
    OBVIOUS
  <2> QED
    BY <2>1, <2>2, <2>3
<1>4. CASE Lists(line)
  <2>1. WithField(n, line) = [n EXCEPT !.to = Append(n.to, ValueOf(line))]
    BY <1>1, <1>4 DEF WithField, Lists
  <2>2. Changed(line) = {"to"} /\ ChangedTo(n, line) = Append(n.to, ValueOf(line))
    BY <1>1, <1>4, Zenon DEF Changed, ChangedTo, Lists
  <2>3. [n EXCEPT !.to = Append(n.to, ValueOf(line))] =
           [field \in FieldsOfNotifier |->
               IF field = "to" THEN Append(n.to, ValueOf(line)) ELSE n[field]]
    OBVIOUS
  <2> QED
    BY <2>1, <2>2, <2>3
<1>5. CASE ~(\/ line.key \in NotifierFields
             \/ line.key = "smtp_port" /\ Parses(line)
             \/ Lists(line))
  <2>1. WithField(n, line) = n
    BY <1>5 DEF WithField, Lists
  <2>2. Changed(line) = {}
    BY <1>5, Zenon DEF Changed
  <2> QED
    BY <2>1, <2>2
<1> QED
  BY <1>2, <1>3, <1>4, <1>5

LEMMA NotifierMore ==
    ASSUME NEW f \in Seq(Lines), NEW line \in Lines, NEW i \in 1..Len(f),
           NEW block \in SUBSET (1..Len(f))
    PROVE  WrittenNotifier(Append(f, line), i, block \cup {Len(f) + 1}) =
              WithField(WrittenNotifier(f, i, block), line)
<1> DEFINE g == Append(f, line)
           more == block \cup {Len(f) + 1}
           d == WrittenNotifier(f, i, block)
<1>1. g[i] = f[i]
  BY FileMore
<1>2. \A key, default : LastOf(g, more, key, default) =
                           IF Gives(line, key) THEN ValueOf(line)
                           ELSE LastOf(f, block, key, default)
  BY LastOfMore
<1>3. Addresses(g, more) =
         IF Lists(line) THEN Append(Addresses(f, block), ValueOf(line))
         ELSE Addresses(f, block)
  BY AddressesMore
<1>4. d = [field \in FieldsOfNotifier |-> NotifierField(f, i, block, field)]
      /\ WrittenNotifier(g, i, more) =
            [field \in FieldsOfNotifier |-> NotifierField(g, i, more, field)]
  BY NotifierIs
<1> HIDE DEF g, more, d
<1>5. /\ DOMAIN d = FieldsOfNotifier
      /\ \A field \in FieldsOfNotifier : d[field] = NotifierField(f, i, block, field)
      /\ d = [field \in FieldsOfNotifier |-> d[field]]
  BY <1>4, Zenon
<1>6. /\ "type" \notin NotifierFields /\ "to" \notin NotifierFields
      /\ "smtp_port" \notin NotifierFields /\ "smtp_port" \in Ported
      /\ "to" \in FieldsOfNotifier /\ "type" # "to"
      /\ "type" # "smtp_port" /\ "to" # "smtp_port"
  BY DEF NotifierFields, Ported, FieldsOfNotifier
<1>7. d.to = Addresses(f, block)
  BY <1>5, <1>6, Zenon DEF NotifierField
<1>8. \A field \in FieldsOfNotifier :
         field \in NotifierFields \cup {"type", "smtp_port", "to"}
  BY Zenon DEF FieldsOfNotifier
<1>9. \A field \in FieldsOfNotifier :
         NotifierField(g, i, more, field) =
            IF field \in Changed(line) THEN ChangedTo(d, line) ELSE d[field]
  <2>1. ASSUME NEW field \in NotifierFields
        PROVE  NotifierField(g, i, more, field) =
                  IF field \in Changed(line) THEN ChangedTo(d, line) ELSE d[field]
    <3>1. field # "type" /\ field # "to" /\ field # "smtp_port"
      BY <1>6, Zenon
    <3>2. Gives(line, field) <=> line.key = field
      BY NoPort, Zenon DEF Gives
    <3>3. field \in Changed(line) <=> line.key = field
      BY Zenon DEF Changed
    <3>4. NotifierField(g, i, more, field) =
             IF line.key = field THEN ValueOf(line)
             ELSE LastOf(f, block, field, Unset)
      BY <1>2, <3>1, <3>2, Zenon DEF NotifierField
    <3>5. d[field] = LastOf(f, block, field, Unset)
      BY <1>5, <3>1, Zenon DEF NotifierField, FieldsOfNotifier
    <3>6. line.key = field => ChangedTo(d, line) = ValueOf(line)
      BY <3>1, Zenon DEF ChangedTo
    <3> QED
      BY <3>3, <3>4, <3>5, <3>6, Zenon
  <2>2. NotifierField(g, i, more, "type") =
           IF "type" \in Changed(line) THEN ChangedTo(d, line) ELSE d["type"]
    <3>1. "type" \notin Changed(line)
      BY <1>6, Zenon DEF Changed, Lists
    <3>2. d["type"] = ValueOf(f[i])
      BY <1>5, Zenon DEF NotifierField, FieldsOfNotifier
    <3> QED
      BY <1>1, <3>1, <3>2, Zenon DEF NotifierField
  <2>3. NotifierField(g, i, more, "to") =
           IF "to" \in Changed(line) THEN ChangedTo(d, line) ELSE d["to"]
    <3>1. "to" \in Changed(line) <=> Lists(line)
      BY <1>6, Zenon DEF Changed, Lists
    <3>2. NotifierField(g, i, more, "to") =
             IF Lists(line) THEN Append(d["to"], ValueOf(line)) ELSE d["to"]
      BY <1>3, <1>6, <1>7, Zenon DEF NotifierField
    <3>3. Lists(line) => ChangedTo(d, line) = Append(d["to"], ValueOf(line))
      BY Zenon DEF Lists, ChangedTo
    <3> QED
      BY <3>1, <3>2, <3>3, Zenon
  <2>4. NotifierField(g, i, more, "smtp_port") =
           IF "smtp_port" \in Changed(line) THEN ChangedTo(d, line)
           ELSE d["smtp_port"]
    <3>1. "smtp_port" \in Changed(line) <=> Gives(line, "smtp_port")
      BY <1>6, Zenon DEF Changed, Lists, Gives
    <3>2. d["smtp_port"] = LastOf(f, block, "smtp_port", Unset)
      BY <1>5, <1>6, Zenon DEF NotifierField, FieldsOfNotifier
    <3>3. NotifierField(g, i, more, "smtp_port") =
             IF Gives(line, "smtp_port") THEN ValueOf(line)
             ELSE LastOf(f, block, "smtp_port", Unset)
      BY <1>2, <1>6, Zenon DEF NotifierField
    <3>4. Gives(line, "smtp_port") => ChangedTo(d, line) = ValueOf(line)
      BY <1>6, Zenon DEF Gives, ChangedTo
    <3> QED
      BY <3>1, <3>2, <3>3, <3>4, Zenon
  <2> QED
    BY <1>8, <2>1, <2>2, <2>3, <2>4, Zenon
<1>10. WithField(d, line) =
          [field \in FieldsOfNotifier |->
              IF field \in Changed(line) THEN ChangedTo(d, line) ELSE d[field]]
  BY <1>5, WithFieldIs
<1> QED
  BY <1>4, <1>9, <1>10, Zenon DEF g, more, d

LEMMA NotifierFresh ==
    ASSUME NEW f \in Seq(Lines), NEW line \in Lines
    PROVE  WrittenNotifier(Append(f, line), Len(f) + 1, {}) = NewNotifier(line)
<1> DEFINE g == Append(f, line)
           n == Len(f)
<1>1. /\ n \in Nat /\ g[n + 1] = line
      /\ g \in Seq(Lines) /\ Len(g) = n + 1
  BY FileMore
<1> HIDE DEF g, n
<1>2. Addresses(g, {}) = << >>
  <2>1. AddressLines(g, {}) = {}
    BY Zenon DEF AddressLines
  <2>2. {} \in SUBSET (1..Len(g))
    OBVIOUS
  <2>3. Addresses(g, {}) =
           [m \in 1..Cardinality({}) |-> ValueOf(g[InOrder({})[m]])]
    BY <1>1, <2>1, <2>2, AddressesAre
  <2>4. Cardinality({}) = 0 /\ 1..0 = {}
    BY FS_EmptySet
  <2> QED
    BY <2>3, <2>4
<1>3. \A field : NotifierField(g, n + 1, {}, field) =
         IF field = "type" THEN ValueOf(line)
         ELSE IF field = "to" THEN << >> ELSE Unset
  <2>1. \A key, default : LastOf(g, {}, key, default) = default
    BY LastOfNone
  <2> QED
    BY <1>1, <1>2, <2>1, Zenon DEF NotifierField
<1>4. /\ NewNotifier(line).type = ValueOf(line)
      /\ NewNotifier(line).to = << >>
      /\ \A field \in FieldsOfNotifier :
            field # "type" /\ field # "to" => NewNotifier(line)[field] = Unset
      /\ NewNotifier(line) = [field \in FieldsOfNotifier |-> NewNotifier(line)[field]]
  BY DEF NewNotifier, FieldsOfNotifier, NotifierFields
<1>5. \A field \in FieldsOfNotifier :
         NotifierField(g, n + 1, {}, field) = NewNotifier(line)[field]
  BY <1>3, <1>4, Zenon
<1> QED
  BY <1>4, <1>5, NotifierIs, Zenon DEF g, n

----------------------------------------------------------------------------
(* The lists a file says, when it gets one more line.                      *)

DeviceAt(f) ==
    [i \in DOMAIN f |-> WrittenDevice(f, i, Block(f, "devices", i))]
NotifierAt(f) ==
    [i \in DOMAIN f |-> WrittenNotifier(f, i, Block(f, "notifiers", i))]

AllDevices(f) == Listed(f, "devices", DeviceAt(f))
AllNotifiers(f) == Listed(f, "notifiers", NotifierAt(f))

Newest(f, sec) == Max(Heads(f, sec))
OpenAt(f, sec) == Heads(f, sec) # {} /\ ~Closed(f, sec, Newest(f, sec))
AllClosed(f, sec) == \A i \in Heads(f, sec) : Closed(f, sec, i)

LEMMA HeadsPlaced ==
    ASSUME NEW f \in Seq(Lines), NEW sec
    PROVE  /\ Heads(f, sec) \in SUBSET (1..Len(f)) /\ Len(f) \in Nat
           /\ DOMAIN f = 1..Len(f)
           /\ \A m \in DOMAIN InOrder(Heads(f, sec)) :
                 InOrder(Heads(f, sec))[m] \in Heads(f, sec)
<1> DEFINE H == Heads(f, sec)
<1>1. H \in SUBSET (1..Len(f)) /\ Len(f) \in Nat /\ DOMAIN f = 1..Len(f)
  BY LenProperties, Zenon DEF Heads
<1> HIDE DEF H
<1>2. /\ DOMAIN InOrder(H) = 1..Cardinality(H)
      /\ \A k \in 1..Cardinality(H) : InOrder(H)[k] \in H
  BY <1>1, InOrderIs
<1> QED
  BY <1>1, <1>2, Zenon DEF H

LEMMA WrittenIs ==
    ASSUME NEW f \in Seq(Lines)
    PROVE  /\ Written(f, "devices", WrittenDevice) = AllDevices(f)
           /\ Written(f, "notifiers", WrittenNotifier) = AllNotifiers(f)
<1>1. \A sec : \A m \in DOMAIN InOrder(Heads(f, sec)) :
         InOrder(Heads(f, sec))[m] \in DOMAIN f
  <2>1. \A sec : Heads(f, sec) \subseteq DOMAIN f
    BY Zenon DEF Heads
  <2>2. \A sec : \A m \in DOMAIN InOrder(Heads(f, sec)) :
           InOrder(Heads(f, sec))[m] \in Heads(f, sec)
    BY HeadsPlaced
  <2> QED
    BY <2>1, <2>2, Zenon
<1>2. Written(f, "devices", WrittenDevice) = AllDevices(f)
  BY <1>1, Zenon DEF Written, AllDevices, Listed, DeviceAt
<1>3. Written(f, "notifiers", WrittenNotifier) = AllNotifiers(f)
  BY <1>1, Zenon DEF Written, AllNotifiers, Listed, NotifierAt
<1> QED
  BY <1>2, <1>3

\* What a line leaves alone of an entry: all but the open one.
LEMMA EntrySame ==
    ASSUME NEW f \in Seq(Lines), NEW line \in Lines, NEW sec,
           NEW i \in Heads(f, sec), EndsEntry(f, sec, line) \/ Closed(f, sec, i)
    PROVE  /\ i \in 1..Len(f) /\ Block(f, sec, i) \in SUBSET (1..Len(f))
           /\ Block(Append(f, line), sec, i) = Block(f, sec, i)
           /\ i \in DOMAIN Append(f, line)
<1>1. i \in 1..Len(f) /\ Len(f) \in Nat
  BY HeadsPlaced, Zenon
<1>2. Block(f, sec, i) \subseteq 1..Len(f)
      /\ Block(Append(f, line), sec, i) = Block(f, sec, i)
  BY <1>1, BlockMore, Zenon
<1>3. DOMAIN Append(f, line) = 1..(Len(f) + 1)
  BY FileMore
<1> QED
  BY <1>1, <1>2, <1>3

LEMMA DeviceAtSame ==
    ASSUME NEW f \in Seq(Lines), NEW line \in Lines,
           NEW i \in Heads(f, "devices"),
           EndsEntry(f, "devices", line) \/ Closed(f, "devices", i)
    PROVE  DeviceAt(Append(f, line))[i] = DeviceAt(f)[i]
<1> DEFINE B == Block(f, "devices", i)
<1>1. /\ i \in 1..Len(f) /\ B \in SUBSET (1..Len(f))
      /\ Block(Append(f, line), "devices", i) = B /\ i \in DOMAIN Append(f, line)
  BY EntrySame
<1>2. i \in DOMAIN f
  BY Zenon DEF Heads
<1> HIDE DEF B
<1>3. Device(Append(f, line), i, B) = Device(f, i, B)
  BY <1>1, DeviceSame
<1> QED
  BY <1>1, <1>2, <1>3, Zenon DEF DeviceAt, WrittenDevice, B

LEMMA NotifierAtSame ==
    ASSUME NEW f \in Seq(Lines), NEW line \in Lines,
           NEW i \in Heads(f, "notifiers"),
           EndsEntry(f, "notifiers", line) \/ Closed(f, "notifiers", i)
    PROVE  NotifierAt(Append(f, line))[i] = NotifierAt(f)[i]
<1> DEFINE B == Block(f, "notifiers", i)
<1>1. /\ i \in 1..Len(f) /\ B \in SUBSET (1..Len(f))
      /\ Block(Append(f, line), "notifiers", i) = B /\ i \in DOMAIN Append(f, line)
  BY EntrySame
<1>2. i \in DOMAIN f
  BY Zenon DEF Heads
<1> HIDE DEF B
<1>3. WrittenNotifier(Append(f, line), i, B) = WrittenNotifier(f, i, B)
  BY <1>1, NotifierSame
<1> QED
  BY <1>1, <1>2, <1>3, Zenon DEF NotifierAt, B

\* The newest entry is open after a line that opens it, closed after a section
\* line, and otherwise as it was.
LEMMA OpenMore ==
    ASSUME NEW f \in Seq(Lines), NEW line \in Lines, NEW sec
    PROVE  LET g == Append(f, line) IN
           /\ OpensEntry(f, sec, line) =>
                 OpenAt(g, sec) /\ Newest(g, sec) = Len(f) + 1
           /\ SectionLine(line) => AllClosed(g, sec)
           /\ ~EndsEntry(f, sec, line) =>
                 /\ AllClosed(f, sec) => AllClosed(g, sec)
                 /\ OpenAt(f, sec) =>
                       OpenAt(g, sec) /\ Newest(g, sec) = Newest(f, sec)
<1> DEFINE g == Append(f, line)
           n == Len(f)
<1>1. /\ Heads(f, sec) \in SUBSET (1..n) /\ n \in Nat
      /\ \A i \in Heads(f, sec) : i \in 1..n
  BY HeadsPlaced, Zenon
<1>2. /\ Heads(g, sec) = IF OpensEntry(f, sec, line) THEN Heads(f, sec) \cup {n + 1}
                         ELSE Heads(f, sec)
  BY HeadsMore
<1>3. \A i \in 1..n : Closed(g, sec, i) <=> Closed(f, sec, i) \/ EndsEntry(f, sec, line)
  BY BlockMore
<1>4. ~Closed(g, sec, n + 1)
  BY BlockFresh
<1> HIDE DEF g, n
<1>5. ASSUME OpensEntry(f, sec, line)
      PROVE  OpenAt(g, sec) /\ Newest(g, sec) = n + 1
  <2> DEFINE T == Heads(g, sec)
  <2>1. T = Heads(f, sec) \cup {n + 1}
    BY <1>2, <1>5
  <2>2. \A i \in T : i \in 1..(n + 1)
    BY <1>1, <2>1
  <2>3. T \in SUBSET (1..(n + 1)) /\ n + 1 \in Nat /\ n + 1 \in T
    BY <1>1, <2>1, <2>2
  <2> HIDE DEF T
  <2>4. Max(T) = n + 1
    BY <2>3, GreatestEquals
  <2> QED
    BY <1>4, <2>3, <2>4, Zenon DEF OpenAt, Newest, T
<1>6. ASSUME SectionLine(line)
      PROVE  AllClosed(g, sec)
  <2>1. ~OpensEntry(f, sec, line) /\ EndsEntry(f, sec, line)
    BY <1>6, Zenon DEF OpensEntry, EndsEntry
  <2> QED
    BY <1>1, <1>2, <1>3, <2>1, Zenon DEF AllClosed
<1>7. ASSUME ~EndsEntry(f, sec, line)
      PROVE  /\ AllClosed(f, sec) => AllClosed(g, sec)
             /\ OpenAt(f, sec) =>
                   OpenAt(g, sec) /\ Newest(g, sec) = Newest(f, sec)
  <2>1. Heads(g, sec) = Heads(f, sec)
    BY <1>2, <1>7, Zenon DEF EndsEntry
  <2>2. AllClosed(f, sec) => AllClosed(g, sec)
    BY <1>1, <1>3, <1>7, <2>1, Zenon DEF AllClosed
  <2>3. Newest(g, sec) = Newest(f, sec)
    BY <2>1, Zenon DEF Newest
  <2>4. OpenAt(f, sec) => Newest(f, sec) \in 1..n
    BY <1>1, GreatestIs DEF OpenAt, Newest
  <2>5. OpenAt(f, sec) => OpenAt(g, sec)
    BY <1>3, <1>7, <2>1, <2>3, <2>4, Zenon DEF OpenAt
  <2> QED
    BY <2>2, <2>3, <2>5
<1> QED
  BY <1>5, <1>6, <1>7, Zenon DEF g, n

LEMMA DevicesMore ==
    ASSUME NEW f \in Seq(Lines), NEW line \in Lines
    PROVE  LET g == Append(f, line)
               i == Newest(f, "devices") IN
           /\ OpensEntry(f, "devices", line) =>
                 AllDevices(g) = AllDevices(f) \o <<WithDefaults(NewDevice(line))>>
           /\ ~OpensEntry(f, "devices", line)
                 /\ (SectionLine(line) \/ AllClosed(f, "devices"))
                 => AllDevices(g) = AllDevices(f)
           /\ ~EndsEntry(f, "devices", line) /\ OpenAt(f, "devices") =>
                 LET d == DeviceWith(Device(f, i, Block(f, "devices", i)), line) IN
                 /\ Device(g, i, Block(g, "devices", i)) = d
                 /\ \A s, x : IsSeq(s) /\ s \o <<x>> = AllDevices(f) =>
                       AllDevices(g) = s \o <<WithDefaults(d)>>
<1> DEFINE g == Append(f, line)
           n == Len(f)
           i == Newest(f, "devices")
           H == Heads(f, "devices")
<1>1. /\ n \in Nat /\ n + 1 \in DOMAIN g /\ g \in Seq(Lines)
      /\ H \in SUBSET (1..n) /\ \A j \in 1..n : j \in DOMAIN g
      /\ \A j \in H : j \in Int
  <2>1. DOMAIN g = 1..(n + 1) /\ n \in Nat /\ g \in Seq(Lines)
    BY FileMore
  <2>2. H \in SUBSET (1..n)
    BY HeadsPlaced
  <2> QED
    BY <2>1, <2>2, BoundedFinite
<1>2. \A j \in H : EndsEntry(f, "devices", line) \/ Closed(f, "devices", j) =>
         DeviceAt(g)[j] = DeviceAt(f)[j]
  BY DeviceAtSame
<1>3. ASSUME OpensEntry(f, "devices", line)
      PROVE  AllDevices(g) = AllDevices(f) \o <<WithDefaults(NewDevice(line))>>
  <2>1. \A j \in H : DeviceAt(g)[j] = DeviceAt(f)[j]
    BY <1>2, <1>3, Zenon DEF EndsEntry
  <2>2. AllDevices(g) = AllDevices(f) \o <<DeviceAt(g)[n + 1]>>
    BY <1>3, <2>1, ListedOpens DEF AllDevices
  <2>3. DeviceAt(g)[n + 1] = WithDefaults(Device(g, n + 1, {}))
    <3>1. Block(g, "devices", n + 1) = {}
      BY BlockFresh
    <3> QED
      BY <1>1, <3>1, Zenon DEF DeviceAt, WrittenDevice
  <2>4. Device(g, n + 1, {}) = NewDevice(line)
    BY DeviceFresh
  <2> QED
    BY <2>2, <2>3, <2>4, Zenon
<1>4. ASSUME ~OpensEntry(f, "devices", line),
             SectionLine(line) \/ AllClosed(f, "devices")
      PROVE  AllDevices(g) = AllDevices(f)
  <2>1. \A j \in H : DeviceAt(g)[j] = DeviceAt(f)[j]
    BY <1>2, <1>4, Zenon DEF EndsEntry, AllClosed
  <2> QED
    BY <1>4, <2>1, ListedSame DEF AllDevices
<1>5. ASSUME ~EndsEntry(f, "devices", line), OpenAt(f, "devices")
      PROVE  LET d == DeviceWith(Device(f, i, Block(f, "devices", i)), line) IN
             /\ Device(g, i, Block(g, "devices", i)) = d
             /\ \A s, x : IsSeq(s) /\ s \o <<x>> = AllDevices(f) =>
                   AllDevices(g) = s \o <<WithDefaults(d)>>
  <2> DEFINE B == Block(f, "devices", i)
             d == DeviceWith(Device(f, i, B), line)
  <2>1. /\ H # {} /\ ~Closed(f, "devices", i) /\ i = Max(H)
        /\ ~OpensEntry(f, "devices", line)
    BY <1>5, Zenon DEF OpenAt, Newest, EndsEntry
  <2>2. i \in H /\ i \in 1..n
    BY <1>1, <2>1, GreatestIs
  <2>3. B \in SUBSET (1..n) /\ Block(g, "devices", i) = B \cup {n + 1}
    BY <1>5, <2>1, <2>2, BlockMore
  <2> HIDE DEF B, g, i
  <2>4. Device(g, i, B \cup {n + 1}) = d
    BY <2>2, <2>3, DeviceMore DEF g
  <2>5. DeviceAt(g)[i] = WithDefaults(d)
    BY <1>1, <2>2, <2>3, <2>4, Zenon DEF DeviceAt, WrittenDevice
  <2>6. \A j \in H : j < Max(H) => DeviceAt(g)[j] = DeviceAt(f)[j]
    <3>1. \A j \in H : j < i => Closed(f, "devices", j)
      BY <2>2, OlderClosed
    <3> QED
      BY <1>2, <2>1, <3>1
  <2>7. \A s, x : IsSeq(s) /\ s \o <<x>> = AllDevices(f) =>
           AllDevices(g) = s \o <<DeviceAt(g)[Max(H)]>>
    <3> DEFINE e == DeviceAt(f)
               e2 == DeviceAt(g)
               p == Max(H)
    <3>1. OthersSame(f, "devices", e, e2)
      BY <2>6, Zenon DEF OthersSame
    <3> HIDE DEF e, e2
    <3>2. \A s, x : IsSeq(s) /\ s \o <<x>> = Listed(f, "devices", e) =>
             Listed(Append(f, line), "devices", e2) = s \o <<e2[p]>>
      <4>1. ~OpensEntry(f, "devices", line) /\ H # {}
        BY <2>1
      <4> QED
        BY <3>1, <4>1, ListedLast
    <3> QED
      BY <3>2, Zenon DEF AllDevices, e, e2, g
  <2> QED
    BY <2>1, <2>3, <2>4, <2>5, <2>7, Zenon DEF B
<1> QED
  BY <1>3, <1>4, <1>5, Zenon

LEMMA NotifiersMore ==
    ASSUME NEW f \in Seq(Lines), NEW line \in Lines
    PROVE  LET g == Append(f, line)
               i == Newest(f, "notifiers") IN
           /\ OpensEntry(f, "notifiers", line) =>
                 AllNotifiers(g) = AllNotifiers(f) \o <<NewNotifier(line)>>
           /\ ~OpensEntry(f, "notifiers", line)
                 /\ (SectionLine(line) \/ AllClosed(f, "notifiers"))
                 => AllNotifiers(g) = AllNotifiers(f)
           /\ ~EndsEntry(f, "notifiers", line) /\ OpenAt(f, "notifiers") =>
                 LET d == WithField(WrittenNotifier(f, i, Block(f, "notifiers", i)),
                                    line) IN
                 /\ WrittenNotifier(g, i, Block(g, "notifiers", i)) = d
                 /\ \A s, x : IsSeq(s) /\ s \o <<x>> = AllNotifiers(f) =>
                       AllNotifiers(g) = s \o <<d>>
<1> DEFINE g == Append(f, line)
           n == Len(f)
           i == Newest(f, "notifiers")
           H == Heads(f, "notifiers")
<1>1. /\ n \in Nat /\ n + 1 \in DOMAIN g /\ g \in Seq(Lines)
      /\ H \in SUBSET (1..n) /\ \A j \in 1..n : j \in DOMAIN g
      /\ \A j \in H : j \in Int
  <2>1. DOMAIN g = 1..(n + 1) /\ n \in Nat /\ g \in Seq(Lines)
    BY FileMore
  <2>2. H \in SUBSET (1..n)
    BY HeadsPlaced
  <2> QED
    BY <2>1, <2>2, BoundedFinite
<1>2. \A j \in H : EndsEntry(f, "notifiers", line) \/ Closed(f, "notifiers", j) =>
         NotifierAt(g)[j] = NotifierAt(f)[j]
  BY NotifierAtSame
<1>3. ASSUME OpensEntry(f, "notifiers", line)
      PROVE  AllNotifiers(g) = AllNotifiers(f) \o <<NewNotifier(line)>>
  <2>1. \A j \in H : NotifierAt(g)[j] = NotifierAt(f)[j]
    BY <1>2, <1>3, Zenon DEF EndsEntry
  <2>2. AllNotifiers(g) = AllNotifiers(f) \o <<NotifierAt(g)[n + 1]>>
    BY <1>3, <2>1, ListedOpens DEF AllNotifiers
  <2>3. NotifierAt(g)[n + 1] = WrittenNotifier(g, n + 1, {})
    <3>1. Block(g, "notifiers", n + 1) = {}
      BY BlockFresh
    <3> QED
      BY <1>1, <3>1, Zenon DEF NotifierAt
  <2>4. WrittenNotifier(g, n + 1, {}) = NewNotifier(line)
    BY NotifierFresh
  <2> QED
    BY <2>2, <2>3, <2>4, Zenon
<1>4. ASSUME ~OpensEntry(f, "notifiers", line),
             SectionLine(line) \/ AllClosed(f, "notifiers")
      PROVE  AllNotifiers(g) = AllNotifiers(f)
  <2>1. \A j \in H : NotifierAt(g)[j] = NotifierAt(f)[j]
    BY <1>2, <1>4, Zenon DEF EndsEntry, AllClosed
  <2> QED
    BY <1>4, <2>1, ListedSame DEF AllNotifiers
<1>5. ASSUME ~EndsEntry(f, "notifiers", line), OpenAt(f, "notifiers")
      PROVE  LET d == WithField(WrittenNotifier(f, i, Block(f, "notifiers", i)),
                                line) IN
             /\ WrittenNotifier(g, i, Block(g, "notifiers", i)) = d
             /\ \A s, x : IsSeq(s) /\ s \o <<x>> = AllNotifiers(f) =>
                   AllNotifiers(g) = s \o <<d>>
  <2> DEFINE B == Block(f, "notifiers", i)
             d == WithField(WrittenNotifier(f, i, B), line)
  <2>1. /\ H # {} /\ ~Closed(f, "notifiers", i) /\ i = Max(H)
        /\ ~OpensEntry(f, "notifiers", line)
    BY <1>5, Zenon DEF OpenAt, Newest, EndsEntry
  <2>2. i \in H /\ i \in 1..n
    BY <1>1, <2>1, GreatestIs
  <2>3. B \in SUBSET (1..n) /\ Block(g, "notifiers", i) = B \cup {n + 1}
    BY <1>5, <2>1, <2>2, BlockMore
  <2> HIDE DEF B, g, i
  <2>4. WrittenNotifier(g, i, B \cup {n + 1}) = d
    BY <2>2, <2>3, NotifierMore DEF g
  <2>5. NotifierAt(g)[i] = d
    BY <1>1, <2>2, <2>3, <2>4, Zenon DEF NotifierAt
  <2>6. \A j \in H : j < Max(H) => NotifierAt(g)[j] = NotifierAt(f)[j]
    <3>1. \A j \in H : j < i => Closed(f, "notifiers", j)
      BY <2>2, OlderClosed
    <3> QED
      BY <1>2, <2>1, <3>1
  <2>7. \A s, x : IsSeq(s) /\ s \o <<x>> = AllNotifiers(f) =>
           AllNotifiers(g) = s \o <<NotifierAt(g)[Max(H)]>>
    <3> DEFINE e == NotifierAt(f)
               e2 == NotifierAt(g)
               p == Max(H)
    <3>1. OthersSame(f, "notifiers", e, e2)
      BY <2>6, Zenon DEF OthersSame
    <3> HIDE DEF e, e2
    <3>2. \A s, x : IsSeq(s) /\ s \o <<x>> = Listed(f, "notifiers", e) =>
             Listed(Append(f, line), "notifiers", e2) = s \o <<e2[p]>>
      <4>1. ~OpensEntry(f, "notifiers", line) /\ H # {}
        BY <2>1
      <4> QED
        BY <3>1, <4>1, ListedLast
    <3> QED
      BY <3>2, Zenon DEF AllNotifiers, e, e2, g
  <2> QED
    BY <2>1, <2>3, <2>4, <2>5, <2>7, Zenon DEF B
<1> QED
  BY <1>3, <1>4, <1>5, Zenon

----------------------------------------------------------------------------
(* What a line changes.                                                    *)

LEMMA ParserInit == ConfigInit => ParserInv
<1> SUFFICES ASSUME ConfigInit PROVE ParserInv
  OBVIOUS
<1>1. << >> \in Seq(Lines) /\ IsSeq(<< >>)
  BY EmptySeq, IsSeqOf
<1>2. OpenListed
  BY <1>1, Zenon DEF OpenListed, ConfigInit
<1>3. cfg = [settings |-> Defaults, devices |-> << >>, notifiers |-> << >>]
      /\ file = << >> /\ outcome \in {"reading", "unreadable"}
  BY Zenon DEF ConfigInit
<1>4. /\ DOMAIN cfg = {"settings", "devices", "notifiers"}
      /\ cfg.settings = Defaults /\ cfg.devices = << >>
  BY <1>3
<1>5. DOMAIN Defaults = Settings
  BY DEF Defaults, Settings, NumberSettings, TextSettings
<1>6. DOMAIN file = {}
  BY <1>3
<1>7. ErrorNoticed
  BY <1>3, <1>6 DEF ErrorNoticed
<1>8. LastSettings
  <2>1. \A key \in Settings : Giving(file, DOMAIN file, key) = {}
    BY <1>6, Zenon DEF Giving
  <2> QED
    BY <1>4, <2>1, LastOfIs, Zenon DEF LastSettings
<1> QED
  BY <1>1, <1>2, <1>3, <1>4, <1>5, <1>7, <1>8 DEF ParserInv, CfgShape

\* No line but that of a setting touches the settings, or ends the reading.
NoSetting(line) ==
    /\ line.key \notin Settings
    /\ cfg'.settings = cfg.settings /\ outcome' = outcome

\* Whatever a line is, the lists stay lists, and it is a setting or not.
LEMMA LineDoes ==
    ASSUME ParserInv, NEW line \in Lines, ReadLine(line)
    PROVE  /\ IsSeq(currentDevice')
           /\ DOMAIN cfg' = DOMAIN cfg /\ IsSeq(cfg'.devices)
           /\ NoSetting(line) \/ SetSetting(line)
<1> DEFINE Kept ==
        /\ IsSeq(currentDevice')
        /\ DOMAIN cfg' = DOMAIN cfg /\ IsSeq(cfg'.devices)
<1>1. /\ DOMAIN cfg = {"settings", "devices", "notifiers"}
      /\ IsSeq(cfg.devices) /\ IsSeq(currentDevice)
      /\ DOMAIN cfg.settings = Settings
  BY Zenon DEF ParserInv, CfgShape, OpenListed
<1>2. IsSeq(Devices(currentDevice))
  BY <1>1, DevicesTyped
<1>3. IsSeq(<< >>) /\ \A d : IsSeq(<<d>>)
  <2>1. \A d : <<d>> \in Seq({d})
    OBVIOUS
  <2> QED
    BY <2>1, EmptySeq, IsSeqOf
<1>4. ASSUME line.key \in {"devices", "notifiers", "- name", "- type"}
      PROVE  line.key \notin Settings
  BY <1>4 DEF Settings, NumberSettings, TextSettings
<1>5. CASE OpenSection(line)
  <2>1. /\ line.key \notin Settings /\ currentDevice' = << >>
        /\ cfg' = [cfg EXCEPT !.devices = Devices(currentDevice),
                              !.notifiers = Notifiers(currentNotifier)]
        /\ outcome' = outcome
    BY <1>5, <1>4, Zenon DEF OpenSection, SectionLine
  <2>2. cfg'.devices = Devices(currentDevice) /\ DOMAIN cfg' = DOMAIN cfg
        /\ cfg'.settings = cfg.settings
    BY <1>1, <2>1
  <2> QED
    BY <1>2, <1>3, <2>1, <2>2, Zenon DEF NoSetting
<1>6. CASE OpenDevice(line)
  <2>1. /\ line.key \notin Settings /\ currentDevice' = <<NewDevice(line)>>
        /\ cfg' = [cfg EXCEPT !.devices = Devices(currentDevice)]
        /\ outcome' = outcome
    BY <1>6, <1>4, Zenon DEF OpenDevice
  <2>2. cfg'.devices = Devices(currentDevice) /\ DOMAIN cfg' = DOMAIN cfg
        /\ cfg'.settings = cfg.settings
    BY <1>1, <2>1
  <2> QED
    BY <1>2, <1>3, <2>1, <2>2, Zenon DEF NoSetting
<1>7. CASE OpenNotifier(line)
  <2>1. /\ line.key \notin Settings /\ currentDevice' = currentDevice
        /\ cfg' = [cfg EXCEPT !.notifiers = Notifiers(currentNotifier)]
        /\ outcome' = outcome
    BY <1>7, <1>4, Zenon DEF OpenNotifier
  <2>2. cfg'.devices = cfg.devices /\ DOMAIN cfg' = DOMAIN cfg
        /\ cfg'.settings = cfg.settings
    BY <1>1, <2>1
  <2> QED
    BY <1>1, <2>1, <2>2, Zenon DEF NoSetting
<1>8. CASE SetDeviceField(line)
  <2>1. line.key \notin Settings
    BY <1>8 DEF SetDeviceField, DeviceLine, DeviceFields, DeviceFlags,
       Settings, NumberSettings, TextSettings
  <2>2. cfg' = cfg /\ outcome' = outcome /\ \E d : currentDevice' = <<d>>
    BY <1>8, Zenon DEF SetDeviceField
  <2> QED
    BY <1>1, <1>3, <2>1, <2>2, Zenon DEF NoSetting
<1>9. CASE SetNotifierField(line) \/ Skip(line)
  <2>1. /\ line.key \notin Settings
        /\ cfg' = cfg /\ outcome' = outcome /\ currentDevice' = currentDevice
    BY <1>9, Zenon DEF SetNotifierField, NotifierLine, Skip, Settings
  <2> QED
    BY <1>1, <2>1, Zenon DEF NoSetting
<1>10. CASE SetSetting(line)
  <2>1. cfg' = cfg \/ cfg' = [cfg EXCEPT !.settings[line.key] = ValueOf(line)]
    BY <1>10, Zenon DEF SetSetting
  <2>2. cfg'.devices = cfg.devices /\ DOMAIN cfg' = DOMAIN cfg
    BY <1>1, <2>1
  <2>3. currentDevice' = currentDevice
    BY <1>10, Zenon DEF SetSetting
  <2> QED
    BY <1>1, <1>10, <2>2, <2>3, Zenon
<1> QED
  BY <1>5, <1>6, <1>7, <1>8, <1>9, <1>10, Zenon DEF ReadLine

\* A number that cannot be read is an error at once, and any other setting is
\* that of its line from then on.
LEMMA SettingDoes ==
    ASSUME ParserInv, NEW line \in Lines, SetSetting(line)
    PROVE  /\ DOMAIN cfg'.settings = Settings
           /\ IF Rejected(line)
              THEN cfg' = cfg /\ outcome' = "invalid_setting"
              ELSE /\ outcome' = outcome
                   /\ \A key \in Settings :
                         cfg'.settings[key] = IF key = line.key THEN ValueOf(line)
                                              ELSE cfg.settings[key]
<1>1. DOMAIN cfg = {"settings", "devices", "notifiers"}
      /\ DOMAIN cfg.settings = Settings
  BY Zenon DEF ParserInv, CfgShape
<1>2. /\ line.key \in Settings
      /\ IF Rejected(line) THEN cfg' = cfg /\ outcome' = "invalid_setting"
         ELSE /\ cfg' = [cfg EXCEPT !.settings[line.key] = ValueOf(line)]
              /\ outcome' = outcome
  BY Zenon DEF SetSetting, Rejected, Settings
<1>3. ASSUME cfg' = [cfg EXCEPT !.settings[line.key] = ValueOf(line)]
      PROVE  cfg'.settings = [cfg.settings EXCEPT ![line.key] = ValueOf(line)]
  BY <1>1, <1>3
<1> QED
  BY <1>1, <1>2, <1>3

LEMMA LineKeeps ==
    ASSUME ParserInv, NEW line \in Lines, ReadLine(line)
    PROVE  ParserInv'
<1>1. /\ file \in Seq(Lines) /\ file' = Append(file, line)
      /\ outcome = "reading" /\ ErrorNoticed /\ LastSettings
      /\ DOMAIN cfg = {"settings", "devices", "notifiers"}
      /\ DOMAIN cfg.settings = Settings
  BY Zenon DEF ParserInv, ReadLine, CfgShape
<1>2. /\ IsSeq(currentDevice') /\ DOMAIN cfg' = DOMAIN cfg
      /\ IsSeq(cfg'.devices)
      /\ NoSetting(line) \/ SetSetting(line)
  BY LineDoes
<1>3. /\ file' \in Seq(Lines) /\ DOMAIN file = 1..Len(file)
      /\ DOMAIN file' = 1..(Len(file) + 1) /\ file'[Len(file) + 1] = line
      /\ \A i \in 1..Len(file) : file'[i] = file[i]
      /\ Len(file) \in Nat
  BY <1>1, AppendProperties, LenProperties
<1>4. (\E i \in DOMAIN file' : Rejected(file'[i])) <=> Rejected(line)
  <2>1. \A i \in DOMAIN file : ~Rejected(file[i])
    BY <1>1 DEF ErrorNoticed
  <2>2. \A i \in DOMAIN file' :
           i \in 1..Len(file) \/ i = Len(file) + 1
    BY <1>3
  <2>3. Len(file) + 1 \in DOMAIN file'
    BY <1>3
  <2> QED
    BY <1>3, <2>1, <2>2, <2>3, Zenon
<1>5. CASE NoSetting(line)
  <2>1. ~Rejected(line)
    BY <1>5, Zenon DEF NoSetting, Rejected, Settings
  <2>2. ErrorNoticed'
    BY <1>1, <1>4, <1>5, <2>1 DEF ErrorNoticed, NoSetting
  <2>3. \A key \in Settings :
           LastOf(file, DOMAIN file, key, Defaults[key])'
              = LastOf(file, DOMAIN file, key, Defaults[key])
    <3> TAKE key \in Settings
    <3>1. LastOf(file', DOMAIN file', key, Defaults[key]) =
             IF line.key = key /\ ~Rejected(line) THEN ValueOf(line)
             ELSE LastOf(file, DOMAIN file, key, Defaults[key])
      BY <1>1, LastSetting, Zenon
    <3>2. line.key # key
      BY <1>5, Zenon DEF NoSetting
    <3> QED
      BY <3>1, <3>2, Zenon
  <2>4. LastSettings' /\ DOMAIN cfg'.settings = Settings
    BY <1>1, <1>5, <2>3, Zenon DEF LastSettings, NoSetting
  <2> QED
    BY <1>1, <1>2, <1>3, <2>2, <2>4, Zenon DEF ParserInv, CfgShape, OpenListed
<1>6. CASE SetSetting(line)
  <2>1. /\ DOMAIN cfg'.settings = Settings
        /\ IF Rejected(line)
           THEN cfg' = cfg /\ outcome' = "invalid_setting"
           ELSE /\ outcome' = outcome
                /\ \A key \in Settings :
                      cfg'.settings[key] = IF key = line.key THEN ValueOf(line)
                                           ELSE cfg.settings[key]
    BY <1>6, SettingDoes
  <2>2. ErrorNoticed'
    BY <1>1, <1>4, <2>1 DEF ErrorNoticed
  <2>3. \A key \in Settings :
           LastOf(file, DOMAIN file, key, Defaults[key])' =
              IF line.key = key /\ ~Rejected(line) THEN ValueOf(line)
              ELSE LastOf(file, DOMAIN file, key, Defaults[key])
    BY <1>1, LastSetting, Zenon
  <2>4. LastSettings'
    BY <1>1, <2>1, <2>3, Zenon DEF LastSettings
  <2> QED
    BY <1>1, <1>2, <1>3, <2>1, <2>2, <2>4, Zenon DEF ParserInv, CfgShape, OpenListed
<1> QED
  BY <1>2, <1>5, <1>6

LEMMA EndKeeps ==
    ASSUME ParserInv, EndOfFile
    PROVE  ParserInv'
<1>1. /\ DOMAIN cfg = {"settings", "devices", "notifiers"}
      /\ DOMAIN cfg.settings = Settings
      /\ IsSeq(cfg.devices) /\ IsSeq(currentDevice)
      /\ file \in Seq(Lines) /\ ErrorNoticed /\ LastSettings
  BY Zenon DEF ParserInv, CfgShape, OpenListed
<1>2. /\ cfg' = [cfg EXCEPT !.devices = Devices(currentDevice),
                            !.notifiers = Notifiers(currentNotifier)]
      /\ currentDevice' = << >> /\ file' = file /\ outcome = "reading"
      /\ outcome' \in {"unreadable", "no_devices", "loaded"}
  BY DEF EndOfFile
<1>3. /\ DOMAIN cfg' = DOMAIN cfg /\ cfg'.settings = cfg.settings
      /\ cfg'.devices = Devices(currentDevice)
  BY <1>1, <1>2
<1>4. IsSeq(cfg'.devices) /\ IsSeq(currentDevice')
  BY <1>1, <1>2, <1>3, DevicesTyped, EmptySeq, IsSeqOf
<1>5. ErrorNoticed'
  BY <1>1, <1>2 DEF ErrorNoticed
<1>6. LastSettings'
  BY <1>1, <1>2, <1>3, Zenon DEF LastSettings, LastOf
<1> QED
  BY <1>1, <1>2, <1>3, <1>4, <1>5, <1>6, Zenon DEF ParserInv, CfgShape, OpenListed

\* A step of the parser reads a line of the input, ends, or does nothing.
LEMMA ParserSteps ==
    ASSUME ParserInv, [ConfigNext]_vars
    PROVE  \/ EndOfFile
           \/ Len(file) < Len(Inputs) /\ \E line \in Lines : ReadLine(line)
           \/ UNCHANGED vars
<1>1. ASSUME Len(file) < Len(Inputs),
             NEW line \in Inputs[Len(file) + 1], ReadLine(line)
      PROVE  \E l \in Lines : ReadLine(l)
  <2>1. Len(file) \in Nat
    BY LenProperties DEF ParserInv
  <2>2. Inputs \in Seq(SUBSET Lines) /\ Len(Inputs) \in Nat
    BY ConfigAssumption, LenProperties
  <2>3. Len(file) + 1 \in 1..Len(Inputs)
    BY <1>1, <2>1, <2>2
  <2>4. Inputs[Len(file) + 1] \in SUBSET Lines
    BY <2>2, <2>3, ElementOfSeq
  <2> QED
    BY <1>1, <2>4, Zenon
<1> QED
  BY <1>1, Zenon DEF ConfigNext

LEMMA ParserStep == ParserInv /\ [ConfigNext]_vars => ParserInv'
<1> SUFFICES ASSUME ParserInv, [ConfigNext]_vars PROVE ParserInv'
  OBVIOUS
<1>1. CASE EndOfFile
  BY <1>1, EndKeeps
<1>2. CASE \E line \in Lines : ReadLine(line)
  BY <1>2, LineKeeps
<1>3. CASE UNCHANGED vars
  BY <1>3, Zenon DEF vars, ParserInv, OpenListed, CfgShape, ErrorNoticed,
     LastSettings, LastOf
<1> QED
  BY <1>1, <1>2, <1>3, ParserSteps

LEMMA ParserInductive == ConfigSpec => []ParserInv
BY ParserInit, ParserStep, PTL DEF ConfigSpec

\* In every file, each setting has the last value that the file gives it, or
\* its default, and the first number that cannot be read ends the loading with
\* an error: nothing that a section or an entry says gets in between.
THEOREM SettingsRead == ConfigSpec => []SettingsAsWritten
BY ParserInductive, ParserInvImplies, PTL
----------------------------------------------------------------------------
(* The entries: what has been read is what the file says so far, and an    *)
(* entry is open exactly if its lines have not ended.                      *)

DevicesRead ==
    /\ Devices(currentDevice) = AllDevices(file)
    /\ IF currentDevice = << >> THEN AllClosed(file, "devices")
       ELSE LET i == Newest(file, "devices") IN
            /\ section = "devices" /\ OpenAt(file, "devices")
            /\ currentDevice = <<Device(file, i, Block(file, "devices", i))>>

NotifiersRead ==
    /\ IsSeq(cfg.notifiers)
    /\ Notifiers(currentNotifier) = AllNotifiers(file)
    /\ IF currentNotifier = << >> THEN AllClosed(file, "notifiers")
       ELSE LET i == Newest(file, "notifiers") IN
            /\ section = "notifiers" /\ OpenAt(file, "notifiers")
            /\ currentNotifier =
                  <<WrittenNotifier(file, i, Block(file, "notifiers", i))>>

EntriesInv ==
    /\ section = SectionOf(file, Len(file))
    /\ outcome = "reading" => DevicesRead /\ NotifiersRead
    /\ outcome = "loaded" => /\ cfg.devices = AllDevices(file)
                             /\ cfg.notifiers = AllNotifiers(file)

LEMMA EntriesImply ==
    ASSUME ParserInv, EntriesInv
    PROVE  DevicesAsWritten /\ NotifiersAsWritten
<1>1. file \in Seq(Lines)
  BY Zenon DEF ParserInv
<1> QED
  BY <1>1, WrittenIs DEF EntriesInv, DevicesAsWritten, NotifiersAsWritten

LEMMA FlushIs ==
    ASSUME IsSeq(cfg.devices), IsSeq(cfg.notifiers)
    PROVE  /\ Devices(<< >>) = cfg.devices /\ Notifiers(<< >>) = cfg.notifiers
           /\ \A d : Devices(<<d>>) = cfg.devices \o <<WithDefaults(d)>>
           /\ \A d : Notifiers(<<d>>) = cfg.notifiers \o <<d>>
<1>1. [i \in DOMAIN << >> |-> WithDefaults(<< >>[i])] = << >>
  OBVIOUS
<1>2. ASSUME NEW d
      PROVE  [i \in DOMAIN <<d>> |-> WithDefaults(<<d>>[i])] = <<WithDefaults(d)>>
  <2>1. DOMAIN <<d>> = {1} /\ <<d>>[1] = d
    OBVIOUS
  <2>2. [i \in DOMAIN <<d>> |-> WithDefaults(<<d>>[i])] =
           [i \in {1} |-> WithDefaults(d)]
    BY <2>1, Zenon
  <2> DEFINE w == WithDefaults(d)
  <2> HIDE DEF w
  <2>3. [i \in {1} |-> w] = <<w>>
    OBVIOUS
  <2> QED
    BY <2>2, <2>3 DEF w
<1>3. cfg.devices \o << >> = cfg.devices /\ cfg.notifiers \o << >> = cfg.notifiers
  BY AddedLast, Zenon
<1>4. Devices(<< >>) = cfg.devices
  BY <1>1, <1>3, Zenon DEF Devices
<1>5. \A d : Devices(<<d>>) = cfg.devices \o <<WithDefaults(d)>>
  BY <1>2, Zenon DEF Devices
<1> QED
  BY <1>3, <1>4, <1>5, Zenon DEF Notifiers

LEMMA EntriesInit == ConfigInit => EntriesInv
<1> SUFFICES ASSUME ConfigInit PROVE EntriesInv
  OBVIOUS
<1>1. /\ section = NoSection /\ currentDevice = << >> /\ currentNotifier = << >>
      /\ cfg = [settings |-> Defaults, devices |-> << >>, notifiers |-> << >>]
      /\ file = << >> /\ outcome # "loaded"
  <2>1. outcome \in {"reading", "unreadable"}
    BY Zenon DEF ConfigInit
  <2>2. outcome # "loaded"
    BY <2>1
  <2> QED
    BY <2>2, Zenon DEF ConfigInit, NoSection
<1>2. cfg.devices = << >> /\ cfg.notifiers = << >>
  BY <1>1
<1>3. IsSeq(<< >>) /\ << >> \in Seq(Lines)
  BY EmptySeq, IsSeqOf
<1>4. Len(file) = 0 /\ DOMAIN file = {} /\ 1..0 = {}
  BY <1>1
<1>5. section = SectionOf(file, Len(file))
  <2>1. SectionLines(file, 0) = {}
    BY <1>4, Zenon DEF SectionLines
  <2> QED
    BY <1>1, <1>4, <2>1, SectionIs, Zenon
<1>6. \A sec : Heads(file, sec) = {}
  BY <1>4, Zenon DEF Heads
<1>7. \A sec, e : Listed(file, sec, e) = << >>
  <2>1. DOMAIN InOrder({}) = {}
    <3>1. Cardinality({}) = 0
      BY FS_EmptySet
    <3> QED
      BY <1>4, <3>1 DEF InOrder
  <2>2. \A e : [m \in {} |-> e[InOrder({})[m]]] = << >>
    OBVIOUS
  <2> QED
    BY <1>6, <2>1, <2>2, Zenon DEF Listed
<1>8. AllDevices(file) = << >> /\ AllNotifiers(file) = << >>
  BY <1>7, Zenon DEF AllDevices, AllNotifiers
<1>9. Devices(<< >>) = << >> /\ Notifiers(<< >>) = << >>
  BY <1>2, <1>3, FlushIs
<1>10. \A sec : AllClosed(file, sec)
  BY <1>6, Zenon DEF AllClosed
<1>11. DevicesRead
  BY <1>1, <1>8, <1>9, <1>10, Zenon DEF DevicesRead
<1>12. NotifiersRead
  BY <1>1, <1>2, <1>3, <1>8, <1>9, <1>10, Zenon DEF NotifiersRead
<1> QED
  BY <1>1, <1>5, <1>11, <1>12, Zenon DEF EntriesInv

\* What a line is to the devices: the end of a section, a new one, or one of
\* the lines of the device that is open.
DeviceStep(line) ==
    \/ /\ SectionLine(line)
       /\ cfg'.devices = Devices(currentDevice) /\ currentDevice' = << >>
    \/ /\ OpensEntry(file, "devices", line)
       /\ cfg'.devices = Devices(currentDevice)
       /\ currentDevice' = <<NewDevice(line)>>
    \/ /\ ~EndsEntry(file, "devices", line) /\ cfg'.devices = cfg.devices
       /\ IF currentDevice = << >> THEN currentDevice' = << >>
          ELSE currentDevice' = <<DeviceWith(currentDevice[1], line)>>

NotifierStep(line) ==
    \/ /\ SectionLine(line)
       /\ cfg'.notifiers = Notifiers(currentNotifier) /\ currentNotifier' = << >>
    \/ /\ OpensEntry(file, "notifiers", line)
       /\ cfg'.notifiers = Notifiers(currentNotifier)
       /\ currentNotifier' = <<NewNotifier(line)>>
    \/ /\ ~EndsEntry(file, "notifiers", line) /\ cfg'.notifiers = cfg.notifiers
       /\ IF currentNotifier = << >> THEN currentNotifier' = << >>
          ELSE currentNotifier' = <<WithField(currentNotifier[1], line)>>

SectionStep(line) ==
    section' = IF SectionLine(line) THEN line.key ELSE section

\* The keys of a device, those of a notifier and the settings.
LEMMA KeysApart ==
    /\ \A key \in DeviceFields \cup DeviceFlags :
          key \notin Settings \cup {"devices", "notifiers", "- name", "- type"}
    /\ \A key \in NotifierFields \cup {"smtp_port", "to"} :
          key \notin Settings \cup {"devices", "notifiers", "- name", "- type", "#"}
    /\ \A key \in Settings :
          key \notin {"devices", "notifiers", "- name", "- type", "#"}
BY DEF DeviceFields, DeviceFlags, NotifierFields, Settings, NumberSettings,
   TextSettings

\* A line with a key that no notifier has leaves it as it is.
LEMMA WithFieldNone ==
    ASSUME NEW n, NEW line,
           line.key \notin NotifierFields \cup {"smtp_port", "to"}
    PROVE  WithField(n, line) = n
BY DEF WithField

\* While reading, at most one entry is open, and only in its own section.
OneOpen ==
    /\ section = SectionOf(file, Len(file))
    /\ \/ currentDevice = << >>
       \/ section = "devices" /\ currentDevice = <<currentDevice[1]>>
    /\ \/ currentNotifier = << >>
       \/ section = "notifiers" /\ currentNotifier = <<currentNotifier[1]>>
    /\ DOMAIN cfg = {"settings", "devices", "notifiers"}

LEMMA OneOpenFollows ==
    ASSUME ParserInv, EntriesInv, outcome = "reading"
    PROVE  OneOpen
<1>1. \A s, d : s = <<d>> => s = <<s[1]>>
  OBVIOUS
<1>2. /\ section = SectionOf(file, Len(file)) /\ DevicesRead /\ NotifiersRead
      /\ DOMAIN cfg = {"settings", "devices", "notifiers"}
  BY Zenon DEF ParserInv, CfgShape, EntriesInv
<1>3. \/ currentDevice = << >>
      \/ section = "devices" /\ currentDevice = <<currentDevice[1]>>
  BY <1>1, <1>2, Zenon DEF DevicesRead
<1>4. \/ currentNotifier = << >>
      \/ section = "notifiers" /\ currentNotifier = <<currentNotifier[1]>>
  BY <1>1, <1>2, Zenon DEF NotifiersRead
<1> QED
  BY <1>2, <1>3, <1>4, Zenon DEF OneOpen

LEMMA StepOf ==
    ASSUME OneOpen, NEW line \in Lines, ReadLine(line)
    PROVE  DeviceStep(line) /\ NotifierStep(line) /\ SectionStep(line)
<1>1. /\ OpensEntry(file, "devices", line) <=>
            ~SectionLine(line) /\ section = "devices" /\ line.key = "- name"
      /\ OpensEntry(file, "notifiers", line) <=>
            ~SectionLine(line) /\ section = "notifiers" /\ line.key = "- type"
  <2>1. "notifiers" # "devices"
    OBVIOUS
  <2> QED
    BY <2>1, Zenon DEF OpensEntry, OneOpen
<1>2. SectionLine(line) => line.key \in {"devices", "notifiers"}
  BY Zenon DEF SectionLine
<1>3. /\ currentDevice # << >> => section = "devices"
      /\ currentNotifier # << >> => section = "notifiers"
      /\ DOMAIN cfg = {"settings", "devices", "notifiers"}
  BY Zenon DEF OneOpen
<1>4. CASE OpenSection(line)
  <2>1. /\ SectionLine(line) /\ section' = line.key
        /\ currentDevice' = << >> /\ currentNotifier' = << >>
        /\ cfg' = [cfg EXCEPT !.devices = Devices(currentDevice),
                              !.notifiers = Notifiers(currentNotifier)]
    BY <1>4, Zenon DEF OpenSection
  <2>2. cfg'.devices = Devices(currentDevice)
        /\ cfg'.notifiers = Notifiers(currentNotifier)
    BY <1>3, <2>1
  <2> QED
    BY <2>1, <2>2, Zenon DEF DeviceStep, NotifierStep, SectionStep
<1>5. CASE OpenDevice(line)
  <2>1. /\ line.key = "- name" /\ section = "devices"
        /\ currentDevice' = <<NewDevice(line)>>
        /\ cfg' = [cfg EXCEPT !.devices = Devices(currentDevice)]
        /\ section' = section /\ currentNotifier' = currentNotifier
    BY <1>5, Zenon DEF OpenDevice
  <2>2. cfg'.devices = Devices(currentDevice) /\ cfg'.notifiers = cfg.notifiers
    BY <1>3, <2>1
  <2>3. ~SectionLine(line) /\ ~OpensEntry(file, "notifiers", line)
        /\ currentNotifier = << >>
    BY <1>1, <1>2, <1>3, <2>1
  <2>4. OpensEntry(file, "devices", line)
    BY <1>1, <2>1, <2>3, Zenon
  <2> QED
    BY <2>1, <2>2, <2>3, <2>4, Zenon DEF DeviceStep, NotifierStep, SectionStep, EndsEntry
<1>6. CASE OpenNotifier(line)
  <2>1. /\ line.key = "- type" /\ section = "notifiers"
        /\ currentNotifier' = <<NewNotifier(line)>>
        /\ cfg' = [cfg EXCEPT !.notifiers = Notifiers(currentNotifier)]
        /\ section' = section /\ currentDevice' = currentDevice
    BY <1>6, Zenon DEF OpenNotifier
  <2>2. cfg'.notifiers = Notifiers(currentNotifier) /\ cfg'.devices = cfg.devices
    BY <1>3, <2>1
  <2>3. ~SectionLine(line) /\ ~OpensEntry(file, "devices", line)
        /\ currentDevice = << >>
    BY <1>1, <1>2, <1>3, <2>1
  <2>4. OpensEntry(file, "notifiers", line)
    BY <1>1, <2>1, <2>3, Zenon
  <2> QED
    BY <2>1, <2>2, <2>3, <2>4, Zenon DEF DeviceStep, NotifierStep, SectionStep, EndsEntry
<1>7. CASE SetDeviceField(line)
  <2>1. /\ line.key \in DeviceFields \cup DeviceFlags
        /\ section = "devices" /\ currentDevice # << >>
        /\ currentDevice' = <<DeviceWith(currentDevice[1], line)>>
        /\ cfg' = cfg /\ section' = section /\ currentNotifier' = currentNotifier
    BY <1>7, Zenon DEF SetDeviceField, DeviceLine, DeviceWith
  <2>2. ~SectionLine(line) /\ ~OpensEntry(file, "notifiers", line)
        /\ currentNotifier = << >> /\ ~OpensEntry(file, "devices", line)
    BY <1>1, <1>2, <1>3, <2>1, KeysApart
  <2> QED
    BY <2>1, <2>2, Zenon DEF DeviceStep, NotifierStep, SectionStep, EndsEntry
<1>8. CASE SetNotifierField(line)
  <2>1. /\ section = "notifiers" /\ currentNotifier # << >>
        /\ ~SectionLine(line) /\ line.key # "- type"
        /\ currentNotifier' = <<WithField(currentNotifier[1], line)>>
        /\ cfg' = cfg /\ section' = section /\ currentDevice' = currentDevice
    BY <1>8, Zenon DEF SetNotifierField, NotifierLine
  <2>2. ~OpensEntry(file, "notifiers", line)
        /\ currentDevice = << >> /\ ~OpensEntry(file, "devices", line)
    BY <1>1, <1>3, <2>1
  <2> QED
    BY <2>1, <2>2, Zenon DEF DeviceStep, NotifierStep, SectionStep, EndsEntry
<1>9. ASSUME ~SectionLine(line), ~OpensEntry(file, "devices", line),
             ~OpensEntry(file, "notifiers", line),
             cfg'.devices = cfg.devices, cfg'.notifiers = cfg.notifiers,
             currentDevice' = currentDevice, currentNotifier' = currentNotifier,
             section' = section,
             currentDevice # << >> => line.key \notin DeviceFields \cup DeviceFlags,
             currentNotifier # << >> =>
                line.key \notin NotifierFields \cup {"smtp_port", "to"}
      PROVE  DeviceStep(line) /\ NotifierStep(line) /\ SectionStep(line)
  <2>1. currentDevice # << >> =>
           currentDevice' = <<DeviceWith(currentDevice[1], line)>>
    BY <1>9, Zenon DEF DeviceWith, OneOpen
  <2>2. currentNotifier # << >> =>
           currentNotifier' = <<WithField(currentNotifier[1], line)>>
    <3>1. currentNotifier # << >> =>
             WithField(currentNotifier[1], line) = currentNotifier[1]
      BY <1>9, WithFieldNone
    <3> QED
      BY <1>9, <3>1, Zenon DEF OneOpen
  <2>3. DeviceStep(line)
    BY <1>9, <2>1, Zenon DEF DeviceStep, EndsEntry
  <2>4. NotifierStep(line)
    BY <1>9, <2>2, Zenon DEF NotifierStep, EndsEntry
  <2> QED
    BY <1>9, <2>3, <2>4, Zenon DEF SectionStep
<1>10. CASE SetSetting(line)
  <2>1. /\ line.key \in Settings
        /\ cfg' = cfg \/ cfg' = [cfg EXCEPT !.settings[line.key] = ValueOf(line)]
        /\ currentDevice' = currentDevice /\ currentNotifier' = currentNotifier
        /\ section' = section
    BY <1>10, Zenon DEF SetSetting, Settings
  <2>2. cfg'.devices = cfg.devices /\ cfg'.notifiers = cfg.notifiers
    BY <1>3, <2>1
  <2>3. /\ ~SectionLine(line) /\ ~OpensEntry(file, "notifiers", line)
        /\ ~OpensEntry(file, "devices", line)
        /\ line.key \notin DeviceFields \cup DeviceFlags
        /\ line.key \notin NotifierFields \cup {"smtp_port", "to"}
    BY <1>1, <1>2, <2>1, KeysApart
  <2> QED
    BY <1>9, <2>1, <2>2, <2>3
<1>11. CASE Skip(line)
  <2>1. /\ ~SectionLine(line) /\ ~DeviceLine(line) /\ ~NotifierLine(line)
        /\ ~OpensEntry(file, "notifiers", line) /\ ~OpensEntry(file, "devices", line)
        /\ line.key \notin Settings
        /\ cfg' = cfg /\ section' = section
        /\ currentDevice' = currentDevice /\ currentNotifier' = currentNotifier
    BY <1>1, <1>11, Zenon DEF Skip, Settings
  <2>2. currentDevice # << >> => line.key \notin DeviceFields \cup DeviceFlags
    BY <1>3, <2>1, Zenon DEF DeviceLine
  <2>3. currentNotifier # << >> => line.key = "- type" \/ line.key = "#"
    BY <1>3, <2>1, Zenon DEF NotifierLine, Settings
  <2>4. currentNotifier # << >> =>
           line.key \notin NotifierFields \cup {"smtp_port", "to"}
    BY <2>3, KeysApart
  <2> QED
    BY <1>9, <2>1, <2>2, <2>4
<1> QED
  BY <1>4, <1>5, <1>6, <1>7, <1>8, <1>10, <1>11, Zenon DEF ReadLine

LEMMA DevicesReadKept ==
    ASSUME ParserInv, EntriesInv, outcome = "reading",
           NEW line \in Lines, ReadLine(line)
    PROVE  DevicesRead'
<1> DEFINE g == Append(file, line)
           i == Newest(file, "devices")
           d == Device(file, i, Block(file, "devices", i))
<1>1. /\ file \in Seq(Lines) /\ file' = g /\ IsSeq(cfg.devices)
      /\ IsSeq(cfg'.devices) /\ IsSeq(cfg.notifiers)
      /\ section = SectionOf(file, Len(file)) /\ DevicesRead
  <2>1. IsSeq(cfg'.devices)
    BY LineDoes
  <2> QED
    BY <2>1, Zenon DEF ParserInv, CfgShape, EntriesInv, NotifiersRead, ReadLine
<1>2. DeviceStep(line) /\ SectionStep(line)
  BY OneOpenFollows, StepOf
<1>3. /\ \A x : Devices(<<x>>) = cfg.devices \o <<WithDefaults(x)>>
      /\ Devices(<< >>) = cfg.devices
  BY <1>1, FlushIs
<1>4. /\ \A x : Devices(<<x>>)' = cfg'.devices \o <<WithDefaults(x)>>
      /\ Devices(<< >>)' = cfg'.devices
  <2>1. /\ \A x : [j \in DOMAIN <<x>> |-> WithDefaults(<<x>>[j])] = <<WithDefaults(x)>>
        /\ [j \in DOMAIN << >> |-> WithDefaults(<< >>[j])] = << >>
    <3>1. ASSUME NEW x
          PROVE  [j \in DOMAIN <<x>> |-> WithDefaults(<<x>>[j])] = <<WithDefaults(x)>>
      <4> DEFINE w == WithDefaults(x)
      <4>1. DOMAIN <<x>> = {1} /\ <<x>>[1] = x
        OBVIOUS
      <4>2. [j \in DOMAIN <<x>> |-> WithDefaults(<<x>>[j])] = [j \in {1} |-> w]
        BY <4>1, Zenon
      <4> HIDE DEF w
      <4>3. [j \in {1} |-> w] = <<w>>
        OBVIOUS
      <4> QED
        BY <4>2, <4>3 DEF w
    <3> QED
      BY <3>1
  <2>2. cfg'.devices \o << >> = cfg'.devices
    BY <1>1, AddedLast, Zenon
  <2> QED
    BY <2>1, <2>2, Zenon DEF Devices
<1>5. /\ Devices(currentDevice) = AllDevices(file)
      /\ currentDevice = << >> => AllClosed(file, "devices")
      /\ currentDevice # << >> => /\ section = "devices" /\ OpenAt(file, "devices")
                                  /\ currentDevice = <<d>> /\ currentDevice[1] = d
  <2>1. \A s, x : s = <<x>> => s[1] = x
    OBVIOUS
  <2> QED
    BY <1>1, <2>1, Zenon DEF DevicesRead
<1>6. \A x : <<x>> # << >>
  OBVIOUS
<1> HIDE DEF g, d, i
<1>7. ASSUME SectionLine(line), cfg'.devices = Devices(currentDevice),
             currentDevice' = << >>
      PROVE  DevicesRead'
  <2>1. ~OpensEntry(file, "devices", line)
    BY <1>7, Zenon DEF OpensEntry
  <2>2. AllDevices(g) = AllDevices(file)
    BY <1>1, <1>7, <2>1, DevicesMore DEF g
  <2>3. AllClosed(g, "devices")
    BY <1>1, <1>7, OpenMore DEF g
  <2> QED
    BY <1>1, <1>4, <1>5, <1>7, <2>2, <2>3, Zenon DEF DevicesRead
<1>8. ASSUME OpensEntry(file, "devices", line), cfg'.devices = Devices(currentDevice),
             currentDevice' = <<NewDevice(line)>>
      PROVE  DevicesRead'
  <2> DEFINE j == Newest(g, "devices")
  <2>1. AllDevices(g) = AllDevices(file) \o <<WithDefaults(NewDevice(line))>>
    BY <1>1, <1>8, DevicesMore DEF g
  <2>2. OpenAt(g, "devices") /\ j = Len(file) + 1
    BY <1>1, <1>8, OpenMore DEF g
  <2>3. Device(g, j, Block(g, "devices", j)) = NewDevice(line)
    <3>1. Block(g, "devices", Len(file) + 1) = {}
      BY <1>1, BlockFresh DEF g
    <3>2. Device(g, Len(file) + 1, {}) = NewDevice(line)
      BY <1>1, DeviceFresh DEF g
    <3> QED
      BY <2>2, <3>1, <3>2, Zenon
  <2>4. section' = "devices"
    BY <1>1, <1>2, <1>8, Zenon DEF SectionStep, OpensEntry
  <2>5. Devices(currentDevice)' = AllDevices(g)
    BY <1>4, <1>5, <1>8, <2>1, Zenon
  <2> QED
    BY <1>1, <1>6, <1>8, <2>2, <2>3, <2>4, <2>5, Zenon DEF DevicesRead
<1>9. ASSUME ~EndsEntry(file, "devices", line), cfg'.devices = cfg.devices,
             currentDevice = << >>, currentDevice' = << >>
      PROVE  DevicesRead'
  <2>1. ~OpensEntry(file, "devices", line)
    BY <1>9, Zenon DEF EndsEntry
  <2>2. AllDevices(g) = AllDevices(file)
    BY <1>1, <1>5, <1>9, <2>1, DevicesMore DEF g
  <2>3. AllClosed(g, "devices")
    BY <1>1, <1>5, <1>9, OpenMore DEF g
  <2> QED
    BY <1>1, <1>3, <1>4, <1>5, <1>9, <2>2, <2>3, Zenon DEF DevicesRead
<1>10. ASSUME ~EndsEntry(file, "devices", line), cfg'.devices = cfg.devices,
              currentDevice # << >>,
              currentDevice' = <<DeviceWith(currentDevice[1], line)>>
       PROVE  DevicesRead'
  <2> DEFINE e == DeviceWith(d, line)
             j == Newest(g, "devices")
  <2>1. cfg.devices \o <<WithDefaults(d)>> = AllDevices(file)
    BY <1>3, <1>5, <1>10, Zenon
  <2>2. /\ Device(g, i, Block(g, "devices", i)) = e
        /\ \A s, x : IsSeq(s) /\ s \o <<x>> = AllDevices(file) =>
              AllDevices(g) = s \o <<WithDefaults(e)>>
    BY <1>1, <1>5, <1>10, DevicesMore, Zenon DEF g, d, i
  <2>3. AllDevices(g) = cfg.devices \o <<WithDefaults(e)>>
    BY <1>1, <2>1, <2>2, Zenon
  <2>4. OpenAt(g, "devices") /\ j = i
    BY <1>1, <1>5, <1>10, OpenMore DEF g, i
  <2>5. section' = "devices"
    BY <1>2, <1>5, <1>10, Zenon DEF SectionStep, EndsEntry
  <2>6. currentDevice' = <<e>>
    BY <1>5, <1>10, Zenon
  <2>7. Devices(currentDevice)' = AllDevices(g)
    BY <1>4, <1>10, <2>3, <2>6, Zenon
  <2> QED
    BY <1>1, <1>6, <2>2, <2>4, <2>5, <2>6, <2>7, Zenon DEF DevicesRead
<1> QED
  BY <1>2, <1>7, <1>8, <1>9, <1>10, Zenon DEF DeviceStep

LEMMA NotifiersReadKept ==
    ASSUME ParserInv, EntriesInv, outcome = "reading",
           NEW line \in Lines, ReadLine(line)
    PROVE  NotifiersRead'
<1> DEFINE g == Append(file, line)
           i == Newest(file, "notifiers")
           d == WrittenNotifier(file, i, Block(file, "notifiers", i))
<1>1. /\ file \in Seq(Lines) /\ file' = g /\ IsSeq(cfg.devices)
      /\ IsSeq(cfg.notifiers)
      /\ section = SectionOf(file, Len(file)) /\ NotifiersRead
  BY Zenon DEF ParserInv, CfgShape, EntriesInv, NotifiersRead, ReadLine
<1>2. NotifierStep(line) /\ SectionStep(line)
  BY OneOpenFollows, StepOf
<1>3. /\ \A x : Notifiers(<<x>>) = cfg.notifiers \o <<x>>
      /\ \A x : Notifiers(<<x>>)' = cfg'.notifiers \o <<x>>
      /\ Notifiers(<< >>) = cfg.notifiers
  BY <1>1, FlushIs, Zenon DEF Notifiers
<1>4. IsSeq(cfg'.notifiers) => Notifiers(<< >>)' = cfg'.notifiers
  BY AddedLast, Zenon DEF Notifiers
<1>5. /\ Notifiers(currentNotifier) = AllNotifiers(file)
      /\ currentNotifier = << >> => AllClosed(file, "notifiers")
      /\ currentNotifier # << >> =>
            /\ section = "notifiers" /\ OpenAt(file, "notifiers")
            /\ currentNotifier = <<d>> /\ currentNotifier[1] = d
  <2>1. \A s, x : s = <<x>> => s[1] = x
    OBVIOUS
  <2> QED
    BY <1>1, <2>1, Zenon DEF NotifiersRead
<1>6. \A x : <<x>> # << >>
  OBVIOUS
<1>7. IsSeq(Notifiers(currentNotifier))
  BY <1>1, <1>5, ListedTyped, Zenon DEF AllNotifiers
<1> HIDE DEF g, d, i
<1>8. ASSUME SectionLine(line), cfg'.notifiers = Notifiers(currentNotifier),
             currentNotifier' = << >>
      PROVE  NotifiersRead'
  <2>1. ~OpensEntry(file, "notifiers", line)
    BY <1>8, Zenon DEF OpensEntry
  <2>2. AllNotifiers(g) = AllNotifiers(file)
    BY <1>1, <1>8, <2>1, NotifiersMore DEF g
  <2>3. AllClosed(g, "notifiers")
    BY <1>1, <1>8, OpenMore DEF g
  <2> QED
    BY <1>1, <1>4, <1>5, <1>7, <1>8, <2>2, <2>3, Zenon DEF NotifiersRead
<1>9. ASSUME OpensEntry(file, "notifiers", line),
             cfg'.notifiers = Notifiers(currentNotifier),
             currentNotifier' = <<NewNotifier(line)>>
      PROVE  NotifiersRead'
  <2> DEFINE j == Newest(g, "notifiers")
  <2>1. AllNotifiers(g) = AllNotifiers(file) \o <<NewNotifier(line)>>
    BY <1>1, <1>9, NotifiersMore DEF g
  <2>2. OpenAt(g, "notifiers") /\ j = Len(file) + 1
    BY <1>1, <1>9, OpenMore DEF g
  <2>3. WrittenNotifier(g, j, Block(g, "notifiers", j)) = NewNotifier(line)
    <3>1. Block(g, "notifiers", Len(file) + 1) = {}
      BY <1>1, BlockFresh DEF g
    <3>2. WrittenNotifier(g, Len(file) + 1, {}) = NewNotifier(line)
      BY <1>1, NotifierFresh DEF g
    <3> QED
      BY <2>2, <3>1, <3>2, Zenon
  <2>4. section' = "notifiers"
    BY <1>1, <1>2, <1>9, Zenon DEF SectionStep, OpensEntry
  <2>5. Notifiers(currentNotifier)' = AllNotifiers(g)
    BY <1>3, <1>5, <1>9, <2>1, Zenon
  <2> QED
    BY <1>1, <1>6, <1>7, <1>9, <2>2, <2>3, <2>4, <2>5, Zenon DEF NotifiersRead
<1>10. ASSUME ~EndsEntry(file, "notifiers", line), cfg'.notifiers = cfg.notifiers,
              currentNotifier = << >>, currentNotifier' = << >>
       PROVE  NotifiersRead'
  <2>1. ~OpensEntry(file, "notifiers", line)
    BY <1>10, Zenon DEF EndsEntry
  <2>2. AllNotifiers(g) = AllNotifiers(file)
    BY <1>1, <1>5, <1>10, <2>1, NotifiersMore DEF g
  <2>3. AllClosed(g, "notifiers")
    BY <1>1, <1>5, <1>10, OpenMore DEF g
  <2> QED
    BY <1>1, <1>3, <1>4, <1>5, <1>10, <2>2, <2>3, Zenon DEF NotifiersRead
<1>11. ASSUME ~EndsEntry(file, "notifiers", line), cfg'.notifiers = cfg.notifiers,
              currentNotifier # << >>,
              currentNotifier' = <<WithField(currentNotifier[1], line)>>
       PROVE  NotifiersRead'
  <2> DEFINE e == WithField(d, line)
             j == Newest(g, "notifiers")
  <2>1. cfg.notifiers \o <<d>> = AllNotifiers(file)
    BY <1>3, <1>5, <1>11, Zenon
  <2>2. /\ WrittenNotifier(g, i, Block(g, "notifiers", i)) = e
        /\ \A s, x : IsSeq(s) /\ s \o <<x>> = AllNotifiers(file) =>
              AllNotifiers(g) = s \o <<e>>
    BY <1>1, <1>5, <1>11, NotifiersMore, Zenon DEF g, d, i
  <2>3. AllNotifiers(g) = cfg.notifiers \o <<e>>
    BY <1>1, <2>1, <2>2, Zenon
  <2>4. OpenAt(g, "notifiers") /\ j = i
    BY <1>1, <1>5, <1>11, OpenMore DEF g, i
  <2>5. section' = "notifiers"
    BY <1>2, <1>5, <1>11, Zenon DEF SectionStep, EndsEntry
  <2>6. currentNotifier' = <<e>>
    BY <1>5, <1>11, Zenon
  <2>7. Notifiers(currentNotifier)' = AllNotifiers(g)
    BY <1>3, <1>11, <2>3, <2>6, Zenon
  <2> QED
    BY <1>1, <1>6, <1>11, <2>2, <2>4, <2>5, <2>6, <2>7, Zenon DEF NotifiersRead
<1> QED
  BY <1>2, <1>8, <1>9, <1>10, <1>11, Zenon DEF NotifierStep

LEMMA EntriesLine ==
    ASSUME ParserInv, EntriesInv, NEW line \in Lines, ReadLine(line)
    PROVE  EntriesInv'
<1>1. /\ outcome = "reading" /\ file \in Seq(Lines) /\ file' = Append(file, line)
      /\ section = SectionOf(file, Len(file))
  BY Zenon DEF ParserInv, EntriesInv, ReadLine
<1>2. DevicesRead' /\ NotifiersRead' /\ SectionStep(line)
  BY <1>1, DevicesReadKept, NotifiersReadKept, OneOpenFollows, StepOf
<1>3. section' = SectionOf(file', Len(file'))
  <2>1. Len(Append(file, line)) = Len(file) + 1
    BY <1>1, FileMore
  <2>2. SectionOf(Append(file, line), Len(file) + 1) =
           IF SectionLine(line) THEN line.key ELSE SectionOf(file, Len(file))
    BY <1>1, SectionMore
  <2> QED
    BY <1>1, <1>2, <2>1, <2>2, Zenon DEF SectionStep
<1>4. outcome' # "loaded"
  <2>1. NoSetting(line) \/ SetSetting(line)
    BY LineDoes
  <2>2. outcome' = outcome \/ outcome' = "invalid_setting"
    BY <2>1, Zenon DEF NoSetting, SetSetting
  <2> QED
    BY <1>1, <2>2
<1> QED
  BY <1>2, <1>3, <1>4, Zenon DEF EntriesInv

LEMMA EntriesEnd ==
    ASSUME ParserInv, EntriesInv, EndOfFile
    PROVE  EntriesInv'
<1>1. /\ outcome = "reading" /\ file' = file /\ section' = section
      /\ cfg' = [cfg EXCEPT !.devices = Devices(currentDevice),
                            !.notifiers = Notifiers(currentNotifier)]
      /\ outcome' \in {"unreadable", "no_devices", "loaded"}
  BY DEF EndOfFile
<1>2. /\ section = SectionOf(file, Len(file))
      /\ DOMAIN cfg = {"settings", "devices", "notifiers"}
      /\ Devices(currentDevice) = AllDevices(file)
      /\ Notifiers(currentNotifier) = AllNotifiers(file)
  BY <1>1, Zenon DEF EntriesInv, DevicesRead, NotifiersRead, ParserInv, CfgShape
<1>3. cfg'.devices = AllDevices(file) /\ cfg'.notifiers = AllNotifiers(file)
  BY <1>1, <1>2
<1>4. outcome' # "reading"
  BY <1>1
<1> QED
  BY <1>1, <1>2, <1>3, <1>4, Zenon DEF EntriesInv

LEMMA EntriesStep == ParserInv /\ EntriesInv /\ [ConfigNext]_vars => EntriesInv'
<1> SUFFICES ASSUME ParserInv, EntriesInv, [ConfigNext]_vars PROVE EntriesInv'
  OBVIOUS
<1>1. CASE EndOfFile
  BY <1>1, EntriesEnd
<1>2. CASE \E line \in Lines : ReadLine(line)
  BY <1>2, EntriesLine
<1>3. CASE UNCHANGED vars
  BY <1>3, Zenon DEF vars, EntriesInv, DevicesRead, NotifiersRead, Devices,
     Notifiers
<1> QED
  BY <1>1, <1>2, <1>3, ParserSteps

LEMMA EntriesInductive == ConfigSpec => [](ParserInv /\ EntriesInv)
BY ParserInductive, EntriesInit, EntriesStep, PTL DEF ConfigSpec

\* In every file that loads, each entry of a devices section is one device, in
\* their order, with the last value of each field in its own lines and the
\* default of a firewall's community, however the sections alternate.
THEOREM DevicesLoaded == ConfigSpec => []DevicesAsWritten
BY EntriesInductive, EntriesImply, PTL

\* The same of the notifiers, with all their address lists added up.
THEOREM NotifiersLoaded == ConfigSpec => []NotifiersAsWritten
BY EntriesInductive, EntriesImply, PTL
----------------------------------------------------------------------------
(* Types.                                                                  *)

Sections == {"", "devices", "notifiers"}
Outcomes == {"reading", "loaded", "unreadable", "invalid_setting", "no_devices"}

AtMostOne(open) == open = << >> \/ \E x : open = <<x>>

\* ConfigTypeOK in parts, and how it is short of one open entry.
TypesInv ==
    /\ section \in Sections
    /\ AtMostOne(currentDevice) /\ AtMostOne(currentNotifier)
    /\ currentDevice # << >> => section = "devices"
    /\ currentNotifier # << >> => section = "notifiers"
    /\ cfg.settings \in [Settings -> Value]
    /\ outcome \in Outcomes
    /\ Len(file) <= Len(Inputs)

LEMMA TypesImply == TypesInv => ConfigTypeOK
<1>1. \A open : AtMostOne(open) => Len(open) <= 1
  <2>1. Len(<< >>) = 0 /\ \A x : Len(<<x>>) = 1
    OBVIOUS
  <2>2. \A open : AtMostOne(open) => Len(open) = 0 \/ Len(open) = 1
    BY <2>1, Zenon DEF AtMostOne
  <2>3. \A n : n = 0 \/ n = 1 => n <= 1
    OBVIOUS
  <2> QED
    BY <2>2, <2>3, Zenon
<1> QED
  BY <1>1, Zenon DEF TypesInv, ConfigTypeOK, Sections, Outcomes, Settings

LEMMA DefaultsTyped == Defaults \in [Settings -> Value]
<1>1. \A key \in DOMAIN Defaults : Defaults[key].text \in Words
  BY WordsAssumption, Zenon
<1>2. /\ DOMAIN Defaults = Settings
      /\ Defaults = [key \in Settings |-> Defaults[key]]
  BY DEF Defaults, Settings, NumberSettings, TextSettings
<1>3. \A key \in Settings : \E t : Defaults[key] = Text(t)
  BY DEF Defaults, Settings, NumberSettings, TextSettings
<1> HIDE DEF Defaults
<1>4. \A key \in Settings : Defaults[key] \in Value
  <2>1. \A t \in Words : Text(t) \in Value
    BY DEF Text, Value
  <2>2. \A t : Text(t).text = t
    BY DEF Text
  <2> QED
    BY <1>1, <1>2, <1>3, <2>1, <2>2, Zenon
<1>5. [key \in Settings |-> Defaults[key]] \in [Settings -> Value]
  BY <1>4
<1> QED
  BY <1>2, <1>5, Zenon

LEMMA TypesInit == ConfigInit => TypesInv
<1> SUFFICES ASSUME ConfigInit PROVE TypesInv
  OBVIOUS
<1>1. /\ section \in Sections /\ currentDevice = << >> /\ currentNotifier = << >>
      /\ cfg = [settings |-> Defaults, devices |-> << >>, notifiers |-> << >>]
      /\ outcome \in {"reading", "unreadable"} /\ file = << >>
  BY Zenon DEF ConfigInit, Sections
<1>2. cfg.settings = Defaults /\ outcome \in Outcomes
  BY <1>1 DEF Outcomes
<1>3. Len(file) <= Len(Inputs)
  BY <1>1, ConfigAssumption, LenProperties
<1> QED
  BY <1>1, <1>2, <1>3, DefaultsTyped, Zenon DEF TypesInv, AtMostOne

LEMMA TypesLine ==
    ASSUME ParserInv, EntriesInv, TypesInv, Len(file) < Len(Inputs),
           NEW line \in Lines, ReadLine(line)
    PROVE  TypesInv'
<1>1. OneOpen /\ outcome = "reading" /\ file' = Append(file, line)
  BY OneOpenFollows, Zenon DEF ReadLine
<1>2. DeviceStep(line) /\ NotifierStep(line) /\ SectionStep(line)
  BY <1>1, StepOf
<1>3. section' \in Sections
  <2>1. SectionLine(line) => line.key \in Sections
    BY Zenon DEF SectionLine, Sections
  <2> QED
    BY <1>2, <2>1, Zenon DEF SectionStep, TypesInv
<1>4. AtMostOne(currentDevice') /\ AtMostOne(currentNotifier')
  BY <1>2, Zenon DEF DeviceStep, NotifierStep, AtMostOne
<1>5. currentDevice' # << >> => section' = "devices"
  <2>1. OpensEntry(file, "devices", line) => section = "devices" /\ ~SectionLine(line)
    BY <1>1, Zenon DEF OpensEntry, OneOpen
  <2> QED
    BY <1>2, <2>1, Zenon DEF DeviceStep, SectionStep, TypesInv, EndsEntry
<1>6. currentNotifier' # << >> => section' = "notifiers"
  <2>1. OpensEntry(file, "notifiers", line) => section = "notifiers" /\ ~SectionLine(line)
    BY <1>1, Zenon DEF OpensEntry, OneOpen
  <2> QED
    BY <1>2, <2>1, Zenon DEF NotifierStep, SectionStep, TypesInv, EndsEntry
<1>7. cfg'.settings \in [Settings -> Value] /\ outcome' \in Outcomes
  <2>1. cfg.settings \in [Settings -> Value] /\ outcome \in Outcomes
        /\ DOMAIN cfg = {"settings", "devices", "notifiers"}
    BY <1>1, Zenon DEF TypesInv, OneOpen
  <2>2. NoSetting(line) \/ SetSetting(line)
    BY LineDoes
  <2>3. CASE NoSetting(line)
    BY <2>1, <2>3, Zenon DEF NoSetting
  <2>4. CASE SetSetting(line)
    <3>1. /\ line.key \in Settings
          /\ \/ cfg' = [cfg EXCEPT !.settings[line.key] = ValueOf(line)]
                /\ outcome' = outcome
             \/ cfg' = cfg /\ outcome' = "invalid_setting"
      BY <2>4, Zenon DEF SetSetting, Settings
    <3>2. ValueOf(line) \in Value
      BY DEF ValueOf, Value, Lines
    <3>3. cfg' = [cfg EXCEPT !.settings[line.key] = ValueOf(line)] =>
             cfg'.settings = [cfg.settings EXCEPT ![line.key] = ValueOf(line)]
      BY <2>1
    <3>4. [cfg.settings EXCEPT ![line.key] = ValueOf(line)] \in [Settings -> Value]
      BY <2>1, <3>1, <3>2
    <3>5. "invalid_setting" \in Outcomes
      BY DEF Outcomes
    <3> QED
      BY <2>1, <3>1, <3>3, <3>4, <3>5, Zenon
  <2> QED
    BY <2>2, <2>3, <2>4
<1>8. Len(file') <= Len(Inputs)
  <2>1. Len(Append(file, line)) = Len(file) + 1 /\ Len(file) \in Nat
    BY FileMore DEF ParserInv
  <2>2. Len(Inputs) \in Nat
    BY ConfigAssumption, LenProperties
  <2> QED
    BY <1>1, <2>1, <2>2
<1> QED
  BY <1>3, <1>4, <1>5, <1>6, <1>7, <1>8, Zenon DEF TypesInv

LEMMA TypesEnd ==
    ASSUME ParserInv, TypesInv, EndOfFile
    PROVE  TypesInv'
<1>1. /\ file' = file /\ section' = section
      /\ currentDevice' = << >> /\ currentNotifier' = << >>
      /\ cfg' = [cfg EXCEPT !.devices = Devices(currentDevice),
                            !.notifiers = Notifiers(currentNotifier)]
      /\ outcome' \in Outcomes
  BY DEF EndOfFile, Outcomes
<1>2. cfg'.settings = cfg.settings
  <2>1. DOMAIN cfg = {"settings", "devices", "notifiers"}
    BY Zenon DEF ParserInv, CfgShape
  <2> QED
    BY <1>1, <2>1
<1> QED
  BY <1>1, <1>2, Zenon DEF TypesInv, AtMostOne

LEMMA TypesStep ==
    ParserInv /\ EntriesInv /\ TypesInv /\ [ConfigNext]_vars => TypesInv'
<1> SUFFICES ASSUME ParserInv, EntriesInv, TypesInv, [ConfigNext]_vars
             PROVE  TypesInv'
  OBVIOUS
<1>1. CASE EndOfFile
  BY <1>1, TypesEnd
<1>2. CASE Len(file) < Len(Inputs) /\ \E line \in Lines : ReadLine(line)
  BY <1>2, TypesLine
<1>3. CASE UNCHANGED vars
  BY <1>3, Zenon DEF vars, TypesInv, AtMostOne
<1> QED
  BY <1>1, <1>2, <1>3, ParserSteps

\* The types of the parser's state: above all, a device is open in a devices
\* section only and a notifier in a notifiers section, so never both.
THEOREM ParserTyped == ConfigSpec => []ConfigTypeOK
BY EntriesInductive, TypesInit, TypesStep, TypesImply, PTL DEF ConfigSpec
============================================================================
