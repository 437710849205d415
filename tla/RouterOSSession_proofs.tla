---------------------- MODULE RouterOSSession_proofs ----------------------
(***************************************************************************)
(* Theorems about RouterOSSession, for any number of rows, of polls and of *)
(* traps with a "!done" after them, and about WordLength.                  *)
(***************************************************************************)
EXTENDS RouterOSSession, WordLength, SequenceTheorems, FiniteSetTheorems, TLAPS

Words == {"!re", "none"} \cup Ends
Sentences == [word : Words, row : Rows]
Asked == [poll : 0..Polls, command : Commands]

\* The types of the two parts of the stream; of a connection that broke only
\* the first is left, and between two replies no row is.
StreamTyped ==
    /\ wire \in Seq(Sentences) /\ unsent \in Seq(Sentences)
    /\ ~linked => request = << >> /\ unsent = << >>
    /\ at \notin Commands => reply = << >>

Following(row) == Row(row.poll, row.command, row.index + 1)

\* The row that the i-th sentence comes after in its answer, if any.
Before(i) ==
    IF i > 1 THEN IF Stream[i - 1].word = "!re" THEN Stream[i - 1].row
                                                ELSE NoRow
             ELSE IF reply = << >> THEN NoRow ELSE reply[Len(reply)]

\* The rows of an answer follow one another from 1, over what is read of it and
\* what is not, and until the connection breaks there is an end to each answer.
RowsFollow ==
    /\ \A i \in 1..Len(Stream) :
          /\ Stream[i].word = "!re" => Stream[i].row # NoRow
          /\ Stream[i].word = "none" =>
                /\ Stream[i].row = NoRow
                /\ i < Len(Stream) => Stream[i + 1].row = NoRow
          /\ Stream[i].row # NoRow =>
                IF Before(i) = NoRow THEN Stream[i].row.index = 1
                                     ELSE Stream[i].row = Following(Before(i))
    /\ linked => IF Stream = << >> THEN reply = << >>
                                   ELSE Stream[Len(Stream)].word \in Ends

\* What is read of a reply are the first rows of one answer.
ReplyOfOne ==
    /\ \A i \in 1..Len(reply) :
          reply[i] = Row(reply[1].poll, reply[1].command, i)
    /\ at = "interface" => system.index = 1

EndsIn(s) == {i \in DOMAIN s : s[i].word \in Ends}

\* The replies still to come, that of the command under way included.
Owed ==
    linked => Len(request) + Cardinality(EndsIn(Stream))
                  = strays + (IF at \in Commands THEN 1 ELSE 0)

\* In a session in step a command that the router has not answered is the only
\* thing under way, and what ends a reply ends the stream, with an empty sentence
\* at most before it.
OneReply ==
    /\ request # << >> =>
          /\ Stream = << >> /\ reply = << >> /\ at \in Commands
          /\ request = <<[poll |-> poll, command |-> at]>>
    /\ at \notin Commands => Stream = << >>
    /\ \A i \in 1..Len(Stream) :
          /\ Stream[i].word \in Ends => i = Len(Stream)
          /\ Stream[i].word = "none" =>
                /\ i >= Len(Stream) - 1
                /\ i = Len(Stream) - 1 => /\ Stream[i + 1].word = "!done"
                                          /\ Stream[i + 1].row = NoRow

\* The rows read, and those still to be read, are those of the command asked,
\* counted through; and once the end is there they are all of them.
RowsInOrder ==
    at \in Commands =>
        /\ \A i \in 1..Len(reply) : reply[i] = Row(poll, at, i)
        /\ \A i \in 1..Len(Stream) :
              /\ Stream[i].word = "!re" =>
                    Stream[i].row = Row(poll, at, Len(reply) + i)
              /\ Stream[i].word = "!done" =>
                    /\ Stream[i].row \in {NoRow, Row(poll, at, Len(reply) + i)}
                    /\ rows[at] =
                          IF Stream[i].row # NoRow THEN Len(reply) + i
                          ELSE IF i > 1 /\ Stream[i - 1].word = "none"
                               THEN Len(reply) + i - 2
                               ELSE Len(reply) + i - 1

\* The system row waits for the interfaces of the same poll.
SystemOfThisPoll == at = "interface" => system = Row(poll, "resource", 1)

InStep ==
    strays = 0 =>
        OneReply /\ RowsInOrder /\ SystemOfThisPoll /\ SnapshotIsOfThisPoll

SessionInv ==
    /\ SessionTypeOK
    /\ StreamTyped
    /\ RowsFollow
    /\ ReplyOfOne
    /\ RowsOfOneAnswer
    /\ Owed
    /\ InStep
----------------------------------------------------------------------------
(* Sequences, and the ends in them.                                        *)

LEMMA OneOrTwo ==
    ASSUME NEW S, NEW a \in S, NEW b \in S
    PROVE  /\ <<a>> \in Seq(S) /\ Len(<<a>>) = 1 /\ <<a>>[1] = a
           /\ <<a, b>> \in Seq(S) /\ Len(<<a, b>>) = 2
           /\ <<a, b>>[1] = a /\ <<a, b>>[2] = b
OBVIOUS

LEMMA Joined ==
    ASSUME NEW S, NEW s \in Seq(S), NEW t \in Seq(S)
    PROVE  /\ s \o t \in Seq(S) /\ Len(s \o t) = Len(s) + Len(t)
           /\ \A i \in 1..Len(s) : (s \o t)[i] = s[i]
           /\ \A i \in (Len(s) + 1)..(Len(s) + Len(t)) :
                 (s \o t)[i] = t[i - Len(s)]
BY ConcatProperties, LenProperties

LEMMA NoRowTyped == NoRow \in Rows /\ \A p, c : \A i \in Nat \ {0} : Row(p, c, i) # NoRow
BY SessionAssumption, SMT DEF NoRow, Row, Rows, Commands

LEMMA EndsFinite ==
    ASSUME NEW s \in Seq(Sentences)
    PROVE  /\ EndsIn(s) \subseteq 1..Len(s)
           /\ IsFiniteSet(EndsIn(s)) /\ Cardinality(EndsIn(s)) \in Nat
<1>1. Len(s) \in Nat /\ DOMAIN s = 1..Len(s)
  BY LenProperties
<1>2. EndsIn(s) \subseteq 1..Len(s)
  BY <1>1 DEF EndsIn
<1>3. IsFiniteSet(1..Len(s))
  BY <1>1, FS_Interval
<1>4. IsFiniteSet(EndsIn(s))
  BY <1>2, <1>3, FS_Subset
<1> QED
  BY <1>2, <1>4, FS_CardinalityType

\* The end at the head of a sequence, if it is one, is not in its tail.
LEMMA EndsOfTail ==
    ASSUME NEW s \in Seq(Sentences), s # << >>
    PROVE  Cardinality(EndsIn(s)) =
               Cardinality(EndsIn(Tail(s))) + (IF s[1].word \in Ends THEN 1 ELSE 0)
<1> DEFINE t == Tail(s)
           rest == EndsIn(s) \ {1}
           f == [i \in EndsIn(t) |-> i + 1]
<1>1. /\ t \in Seq(Sentences) /\ Len(t) = Len(s) - 1 /\ Len(s) \in Nat \ {0}
      /\ \A i \in 1..Len(t) : t[i] = s[i + 1]
  BY HeadTailProperties, EmptySeq
<1>2. DOMAIN s = 1..Len(s) /\ DOMAIN t = 1..Len(t)
  BY <1>1, LenProperties
<1> HIDE DEF t
<1>3. \A i : i \in EndsIn(t) <=> i \in 1..Len(t) /\ s[i + 1].word \in Ends
  BY <1>1, <1>2 DEF EndsIn
<1>4. \A i : i \in rest <=> i \in 2..Len(s) /\ s[i].word \in Ends
  BY <1>1, <1>2 DEF EndsIn
<1> HIDE DEF rest
<1>5. f \in [EndsIn(t) -> rest]
  BY <1>1, <1>3, <1>4
<1>6. \A a, b \in EndsIn(t) : f[a] = f[b] => a = b
  BY <1>3
<1>7. \A j \in rest : \E i \in EndsIn(t) : f[i] = j
  <2> SUFFICES ASSUME NEW j \in rest PROVE \E i \in EndsIn(t) : f[i] = j
    OBVIOUS
  <2>1. j \in 2..Len(s) /\ s[j].word \in Ends
    BY <1>4
  <2>2. j - 1 \in 1..Len(t) /\ (j - 1) + 1 = j
    BY <2>1, <1>1
  <2>3. j - 1 \in EndsIn(t)
    BY <2>1, <2>2, <1>3
  <2>4. f[j - 1] = j
    BY <2>2, <2>3
  <2> QED
    BY <2>3, <2>4
<1>8. f \in Bijection(EndsIn(t), rest)
  <2>1. DOMAIN f = EndsIn(t)
    OBVIOUS
  <2> HIDE DEF f
  <2>2. f \in Injection(EndsIn(t), rest)
    BY <2>1, <1>5, <1>6 DEF Injection, IsInjective
  <2>3. f \in Surjection(EndsIn(t), rest)
    BY <1>5, <1>7 DEF Surjection
  <2> QED
    BY <2>2, <2>3 DEF Bijection
<1> HIDE DEF f
<1>9. Cardinality(rest) = Cardinality(EndsIn(t))
  BY <1>1, <1>8, EndsFinite, FS_Bijection DEF ExistsBijection
<1>10. Cardinality(rest) =
          IF 1 \in EndsIn(s) THEN Cardinality(EndsIn(s)) - 1
                             ELSE Cardinality(EndsIn(s))
  BY EndsFinite, FS_RemoveElement DEF rest
<1>11. 1 \in EndsIn(s) <=> s[1].word \in Ends
  BY <1>1, <1>2 DEF EndsIn
<1>12. Cardinality(EndsIn(s)) \in Nat
  BY EndsFinite
<1> QED
  BY <1>9, <1>10, <1>11, <1>12 DEF t

\* An answer that has one end, or two, adds as many to the stream.
LEMMA EndsOfBoth ==
    ASSUME NEW s \in Seq(Sentences), NEW a \in Seq(Sentences),
           NEW k \in Nat, Len(a) \in {k + 1, k + 2},
           \A i \in 1..k : a[i].word \notin Ends,
           a[Len(a)].word \in Ends
    PROVE  Cardinality(EndsIn(s \o a)) = Cardinality(EndsIn(s)) + 1
               + (IF Len(a) = k + 2 /\ a[k + 1].word \in Ends THEN 1 ELSE 0)
<1> DEFINE first == Len(s) + k + 1
           last == Len(s) + Len(a)
           two == Len(a) = k + 2 /\ a[k + 1].word \in Ends
<1>1. /\ s \o a \in Seq(Sentences) /\ Len(s \o a) = Len(s) + Len(a)
      /\ \A i \in 1..Len(s) : (s \o a)[i] = s[i]
      /\ \A i \in (Len(s) + 1)..(Len(s) + Len(a)) : (s \o a)[i] = a[i - Len(s)]
  BY Joined
<1>2. /\ DOMAIN s = 1..Len(s) /\ Len(s) \in Nat
      /\ DOMAIN (s \o a) = 1..(Len(s) + Len(a))
  BY <1>1, LenProperties
<1>3. EndsIn(s \o a) = EndsIn(s) \cup {last} \cup (IF two THEN {first} ELSE {})
  <2>1. ASSUME NEW i \in 1..Len(s)
        PROVE  i \in EndsIn(s \o a) <=> i \in EndsIn(s)
    BY <1>1, <1>2 DEF EndsIn
  <2>2. ASSUME NEW i \in (Len(s) + 1)..(Len(s) + Len(a))
        PROVE  i \in EndsIn(s \o a) <=> i = last \/ (two /\ i = first)
    <3>1. i \in EndsIn(s \o a) <=> a[i - Len(s)].word \in Ends
      BY <1>1, <1>2 DEF EndsIn
    <3>2. i - Len(s) \in 1..k \/ i = last \/ (Len(a) = k + 2 /\ i = first)
      BY <1>2
    <3>3. last - Len(s) = Len(a) /\ first - Len(s) = k + 1
      BY <1>2
    <3>4. first \in Int /\ last \in Int /\ (Len(a) = k + 2 => first # last)
      BY <1>2
    <3> QED
      BY <3>1, <3>2, <3>3, <3>4
  <2>3. EndsIn(s \o a) \subseteq 1..(Len(s) + Len(a)) /\ EndsIn(s) \subseteq 1..Len(s)
    BY <1>2 DEF EndsIn
  <2>4. \A i \in 1..(Len(s) + Len(a)) :
           i \in 1..Len(s) \/ i \in (Len(s) + 1)..(Len(s) + Len(a))
    BY <1>2
  <2>5. /\ last \in (Len(s) + 1)..(Len(s) + Len(a))
        /\ two => first \in (Len(s) + 1)..(Len(s) + Len(a))
        /\ \A i \in 1..Len(s) : i # last /\ i # first
    BY <1>2
  <2> HIDE DEF last, first, two
  <2> QED
    BY <2>1, <2>2, <2>3, <2>4, <2>5
<1>4. /\ last \notin EndsIn(s) /\ first \notin EndsIn(s)
      /\ two => first # last
  BY <1>2 DEF EndsIn
<1>5. IsFiniteSet(EndsIn(s)) /\ Cardinality(EndsIn(s)) \in Nat
  BY EndsFinite
<1> HIDE DEF last, first, two
<1>6. /\ IsFiniteSet(EndsIn(s) \cup {last})
      /\ Cardinality(EndsIn(s) \cup {last}) = Cardinality(EndsIn(s)) + 1
  BY <1>4, <1>5, FS_AddElement
<1>7. CASE two
  <2>1. Cardinality(EndsIn(s) \cup {last} \cup {first})
           = Cardinality(EndsIn(s) \cup {last}) + 1
    BY <1>4, <1>6, <1>7, FS_AddElement
  <2> QED
    BY <2>1, <1>3, <1>5, <1>6, <1>7 DEF two
<1>8. CASE ~two
  <2>1. EndsIn(s \o a) = EndsIn(s) \cup {last}
    BY <1>3, <1>8
  <2> QED
    BY <2>1, <1>5, <1>6, <1>8 DEF two
<1> QED
  BY <1>7, <1>8
----------------------------------------------------------------------------
(* The first state, and the steps of the router and of the network.        *)

LEMMA StreamIs ==
    ASSUME SessionInv
    PROVE  /\ Stream \in Seq(Sentences) /\ Len(Stream) \in Nat
           /\ reply \in Seq(Rows) /\ Len(reply) \in Nat
           /\ unsent = << >> => Stream = wire
           /\ Stream = << >> <=> wire = << >> /\ unsent = << >>
<1>1. wire \in Seq(Sentences) /\ unsent \in Seq(Sentences) /\ reply \in Seq(Rows)
  BY DEF SessionInv, StreamTyped, SessionTypeOK
<1>2. Stream \in Seq(Sentences)
  BY <1>1, Joined DEF Stream
<1>3. unsent = << >> => Stream = wire
  BY <1>1, ConcatEmptySeq DEF Stream
<1>4. Stream = << >> <=> wire = << >> /\ unsent = << >>
  BY <1>1, ConcatSimplifications!concIsEmpty, ConcatEmptySeq DEF Stream
<1> QED
  BY <1>1, <1>2, <1>3, <1>4, LenProperties

\* What SessionTypeOK says of the stream.
LEMMA RowsOfStream ==
    ASSUME NEW s \in Seq(Sentences)
    PROVE  \A i \in DOMAIN s : s[i] \in Sentences /\ s[i].row \in Rows
<1>1. \A i \in DOMAIN s : s[i] \in Sentences
  BY LenProperties, ElementOfSeq
<1> QED
  BY <1>1 DEF Sentences

LEMMA InitInv == SessionInit => SessionInv
<1> SUFFICES ASSUME SessionInit PROVE SessionInv
  OBVIOUS
<1> DEFINE asked == [poll |-> 0, command |-> "login"]
<1>1. /\ linked = TRUE /\ at = "login" /\ poll = 0 /\ strays = 0
      /\ wire = << >> /\ unsent = << >> /\ reply = << >> /\ request = <<asked>>
      /\ system = NoRow /\ snapshot = Failed /\ rows = [c \in Commands |-> 0]
  BY DEF SessionInit
<1>2. asked \in Asked
  BY SessionAssumption DEF Asked, Commands
<1> HIDE DEF asked
<1>3. request \in Seq(Asked) /\ Len(request) = 1 /\ request # << >>
  BY <1>1, <1>2, OneOrTwo, EmptySeq
<1>4. /\ wire \in Seq(Sentences) /\ unsent \in Seq(Sentences)
      /\ Stream = << >> /\ Stream \in Seq(Sentences) /\ Len(Stream) = 0
      /\ reply \in Seq(Rows) /\ Len(reply) = 0
  BY <1>1, ConcatEmptySeq, EmptySeq DEF Stream
<1>5. NoRow \in Rows
  BY NoRowTyped
<1>6. rows \in [Commands -> 0..(MaxRows + 1)] /\ strays \in 0..MaxStrays
      /\ poll \in 0..Polls /\ Len(reply) <= MaxRows + 1
  BY <1>1, <1>4, SessionAssumption
<1>7. request \in {<< >>, <<[poll |-> poll, command |-> at]>>}
      /\ at # "idle" /\ at \in Commands /\ at # "interface"
  BY <1>1 DEF asked, Commands
<1>8. SessionTypeOK
  BY <1>1, <1>3, <1>4, <1>5, <1>6, <1>7, RowsOfStream DEF SessionTypeOK, Asked
<1>9. StreamTyped
  BY <1>1, <1>4 DEF StreamTyped
<1>10. RowsFollow
  BY <1>1, <1>4 DEF RowsFollow
<1>11. ReplyOfOne /\ RowsOfOneAnswer
  BY <1>4, <1>7 DEF ReplyOfOne, RowsOfOneAnswer
<1>12. Owed
  <2>1. EndsIn(Stream) \subseteq 1..0
    BY <1>4, EndsFinite
  <2>2. EndsIn(Stream) = {}
    BY <2>1
  <2> QED
    BY <2>2, <1>1, <1>3, <1>7, FS_EmptySet DEF Owed
<1>13. OneReply
  BY <1>1, <1>4, <1>7 DEF OneReply, asked
<1>14. RowsInOrder /\ SystemOfThisPoll /\ SnapshotIsOfThisPoll
  BY <1>4, <1>7 DEF RowsInOrder, SystemOfThisPoll, SnapshotIsOfThisPoll
<1> QED
  BY <1>8, <1>9, <1>10, <1>11, <1>12, <1>13, <1>14 DEF SessionInv, InStep

\* What can end an answer, by its sentences.
LEMMA EndingShape ==
    ASSUME NEW row \in Rows, NEW e \in Endings(row)
    PROVE  /\ e \in Seq(Sentences)
           /\ \/ /\ Len(e) = 1 /\ e[1].word \in Ends
                 /\ e[1].row \in {NoRow, row}
              \/ /\ Len(e) = 2
                 /\ e[1].word = "none" /\ e[1].row = NoRow
                 /\ e[2].word = "!done" /\ e[2].row = NoRow
              \/ /\ Len(e) = 2
                 /\ e[1].word = "!trap" /\ e[1].row = row
                 /\ e[2].word = "!done" /\ e[2].row = NoRow
<1>1. \A w \in Words, r \in Rows : Sentence(w, r) \in Sentences
  BY DEF Sentence, Sentences
<1>2. \A w, r : Sentence(w, r).word = w /\ Sentence(w, r).row = r
  BY DEF Sentence
<1>3. \A w \in Words : Sentence(w, NoRow) \in Sentences
                        /\ Sentence(w, row) \in Sentences
  BY <1>1, NoRowTyped
<1>4. \/ e = <<Sentence("!done", NoRow)>> \/ e = <<Sentence("!done", row)>>
      \/ e = <<Sentence("none", NoRow), Sentence("!done", NoRow)>>
      \/ e = <<Sentence("!fatal", NoRow)>> \/ e = <<Sentence("!trap", row)>>
      \/ e = <<Sentence("!trap", row), Sentence("!done", NoRow)>>
  BY DEF Endings
<1>5. ASSUME NEW w \in {"!done", "!trap", "!fatal"}, NEW r \in {NoRow, row},
             e = <<Sentence(w, r)>>
      PROVE  /\ e \in Seq(Sentences) /\ Len(e) = 1
             /\ e[1].word \in Ends /\ e[1].row \in {NoRow, row}
  <2>1. Sentence(w, r) \in Sentences
    BY <1>3, <1>5 DEF Words, Ends
  <2>2. e \in Seq(Sentences) /\ Len(e) = 1 /\ e[1] = Sentence(w, r)
    BY <1>5, <2>1, OneOrTwo
  <2> QED
    BY <2>2, <1>2 DEF Ends
<1>6. ASSUME NEW w \in Words, NEW r \in {NoRow, row},
             e = <<Sentence(w, r), Sentence("!done", NoRow)>>
      PROVE  /\ e \in Seq(Sentences) /\ Len(e) = 2
             /\ e[1].word = w /\ e[1].row = r
             /\ e[2].word = "!done" /\ e[2].row = NoRow
  <2>1. Sentence(w, r) \in Sentences /\ Sentence("!done", NoRow) \in Sentences
    BY <1>3, <1>6 DEF Words, Ends
  <2>2. /\ e \in Seq(Sentences) /\ Len(e) = 2
        /\ e[1] = Sentence(w, r) /\ e[2] = Sentence("!done", NoRow)
    BY <1>6, <2>1, OneOrTwo
  <2> QED
    BY <2>2, <1>2
<1>7. "none" \in Words /\ "!trap" \in Words
  BY DEF Words, Ends
<1> QED
  BY <1>4, <1>5, <1>6, <1>7

\* An answer with k rows and an end, n rows in all, since the end may have one.
AnswerOf(a, k, n, p, c) ==
    /\ a \in Seq(Sentences)
    /\ \A i \in 1..k : a[i].word = "!re" /\ a[i].row = Row(p, c, i)
    /\ \/ /\ Len(a) = k + 1
          /\ a[k + 1].word \in Ends
          /\ \/ n = k /\ a[k + 1].row = NoRow
             \/ n = k + 1 /\ a[k + 1].row = Row(p, c, k + 1)
          /\ strays' = strays
       \/ /\ Len(a) = k + 2 /\ n = k
          /\ a[k + 1].word = "none" /\ a[k + 1].row = NoRow
          /\ a[k + 2].word = "!done" /\ a[k + 2].row = NoRow
          /\ strays' = strays
       \/ /\ Len(a) = k + 2 /\ n = k + 1
          /\ a[k + 1].word = "!trap" /\ a[k + 1].row = Row(p, c, k + 1)
          /\ a[k + 2].word = "!done" /\ a[k + 2].row = NoRow
          /\ strays' = strays + 1

LEMMA AnswerShape ==
    ASSUME SessionInv, RouterAnswers, NEW p, NEW c,
           p = request[1].poll, c = request[1].command
    PROVE  /\ p \in 0..Polls /\ c \in Commands
           /\ request \in Seq(Asked) /\ Len(request) \in Nat \ {0}
           /\ request' \in Seq(Asked) /\ Len(request') = Len(request) - 1
           /\ \E k \in 0..MaxRows : \E n \in {k, k + 1} :
                 AnswerOf(unsent', k, n, p, c) /\ rows' = [rows EXCEPT ![c] = n]
<1> DEFINE TheRow(i) == Row(request[1].poll, request[1].command, i)
<1>1. PICK k \in 0..MaxRows : \E e \in Endings(TheRow(k + 1)) :
         /\ unsent' = [i \in 1..k |-> Sentence("!re", TheRow(i))] \o e
         /\ rows' = [rows EXCEPT ![request[1].command] =
                        IF e[1].row = NoRow THEN k ELSE k + 1]
         /\ strays' = IF e[1].word = "!trap" /\ Len(e) = 2
                        THEN strays + 1 ELSE strays
  BY DEF RouterAnswers
<1>2. PICK e \in Endings(TheRow(k + 1)) :
         /\ unsent' = [i \in 1..k |-> Sentence("!re", TheRow(i))] \o e
         /\ rows' = [rows EXCEPT ![request[1].command] =
                        IF e[1].row = NoRow THEN k ELSE k + 1]
         /\ strays' = IF e[1].word = "!trap" /\ Len(e) = 2
                        THEN strays + 1 ELSE strays
  BY <1>1
<1> DEFINE n == IF e[1].row = NoRow THEN k ELSE k + 1
           res == [i \in 1..k |-> Sentence("!re", TheRow(i))]
<1>3. /\ request \in Seq(Asked) /\ request # << >> /\ request' = Tail(request)
      /\ MaxRows \in Nat
  BY SessionAssumption DEF SessionInv, SessionTypeOK, RouterAnswers, Asked
<1>4. /\ Len(request) \in Nat \ {0} /\ request[1] \in Asked
      /\ request' \in Seq(Asked) /\ Len(request') = Len(request) - 1
  BY <1>3, EmptySeq, HeadTailProperties, ElementOfSeq
<1>5. p \in 0..Polls /\ c \in Commands
  BY <1>4 DEF Asked
<1>6. \A i : TheRow(i) = Row(p, c, i)
  OBVIOUS
<1>7. \A i \in 0..(MaxRows + 1) : Row(p, c, i) \in Rows
  BY <1>5 DEF Row, Rows
<1>8. k \in Nat /\ k + 1 \in 0..(MaxRows + 1)
  BY <1>3
<1>9. /\ e \in Seq(Sentences)
      /\ \/ Len(e) = 1 /\ e[1].word \in Ends /\ e[1].row \in {NoRow, Row(p, c, k + 1)}
         \/ /\ Len(e) = 2 /\ e[1].word = "none" /\ e[1].row = NoRow
            /\ e[2].word = "!done" /\ e[2].row = NoRow
         \/ /\ Len(e) = 2 /\ e[1].word = "!trap" /\ e[1].row = Row(p, c, k + 1)
            /\ e[2].word = "!done" /\ e[2].row = NoRow
  <2>1. e \in Endings(Row(p, c, k + 1)) /\ Row(p, c, k + 1) \in Rows
    BY <1>2, <1>6, <1>7, <1>8
  <2> QED
    BY <2>1, EndingShape
<1>10. res \in Seq(Sentences) /\ Len(res) = k
       /\ \A i \in 1..k : res[i] = Sentence("!re", Row(p, c, i))
  <2>1. \A i \in 1..k : i \in 0..(MaxRows + 1)
    BY <1>3
  <2>2. \A i \in 1..k : Sentence("!re", TheRow(i)) \in Sentences
    BY <2>1, <1>6, <1>7 DEF Sentence, Sentences, Words
  <2> QED
    BY <2>2, <1>6, <1>8, LenProperties, IsASeq
<1>11. unsent' = res \o e /\ rows' = [rows EXCEPT ![c] = n]
  BY <1>2
<1> HIDE DEF res
<1>12. Row(p, c, k + 1) # NoRow
  BY <1>8, NoRowTyped
<1>13. /\ unsent' \in Seq(Sentences) /\ Len(unsent') = k + Len(e)
       /\ \A i \in 1..k : unsent'[i] = res[i]
       /\ \A i \in (k + 1)..(k + Len(e)) : unsent'[i] = e[i - k]
  <2>1. /\ res \o e \in Seq(Sentences) /\ Len(res \o e) = Len(res) + Len(e)
        /\ \A i \in 1..Len(res) : (res \o e)[i] = res[i]
        /\ \A i \in (Len(res) + 1)..(Len(res) + Len(e)) :
              (res \o e)[i] = e[i - Len(res)]
    BY <1>9, <1>10, Joined
  <2> QED
    BY <2>1, <1>10, <1>11
<1>14. \A i \in 1..k : unsent'[i].word = "!re" /\ unsent'[i].row = Row(p, c, i)
  BY <1>10, <1>13 DEF Sentence
<1>15. n \in {k, k + 1} /\ (n = k <=> e[1].row = NoRow)
  BY <1>8
<1>16. strays' = IF e[1].word = "!trap" /\ Len(e) = 2 THEN strays + 1 ELSE strays
  BY <1>2
<1> HIDE DEF n
<1>17. n = k \/ n = k + 1
  BY <1>15
<1>18. CASE Len(e) = 1
  <2>1. unsent'[k + 1] = e[1] /\ Len(unsent') = k + 1
    BY <1>8, <1>13, <1>18
  <2>2. e[1].word \in Ends /\ e[1].row \in {NoRow, Row(p, c, k + 1)}
    BY <1>9, <1>18
  <2>3. strays' = strays
    BY <1>16, <1>18
  <2>4. \/ n = k /\ e[1].row = NoRow
        \/ n = k + 1 /\ e[1].row = Row(p, c, k + 1)
    <3>1. CASE n = k
      BY <3>1, <1>15
    <3>2. CASE n = k + 1
      <4>1. n # k
        BY <3>2, <1>8
      <4> QED
        BY <4>1, <3>2, <2>2, <1>15
    <3> QED
      BY <3>1, <3>2, <1>17
  <2>5. AnswerOf(unsent', k, n, p, c)
    BY <2>1, <2>2, <2>3, <2>4, <1>13, <1>14 DEF AnswerOf
  <2> QED
    BY <2>5, <1>3, <1>4, <1>5, <1>11, <1>15
<1>19. CASE Len(e) = 2
  <2>1. /\ unsent'[k + 1] = e[1] /\ unsent'[k + 2] = e[2]
        /\ Len(unsent') = k + 2
    BY <1>8, <1>13, <1>19
  <2>2. ~(Len(e) = 1)
    BY <1>19
  <2>3. CASE e[1].word = "none" /\ e[1].row = NoRow
    <3>1. strays' = strays /\ n = k
      BY <2>3, <1>15, <1>16
    <3>2. e[2].word = "!done" /\ e[2].row = NoRow
      BY <2>2, <1>9
    <3>3. AnswerOf(unsent', k, n, p, c)
      BY <2>1, <2>3, <3>1, <3>2, <1>13, <1>14 DEF AnswerOf
    <3> QED
      BY <3>3, <1>3, <1>4, <1>5, <1>11, <1>15
  <2>4. CASE e[1].word = "!trap" /\ e[1].row = Row(p, c, k + 1)
    <3>1. strays' = strays + 1
      BY <2>4, <1>16, <1>19
    <3>2. n = k + 1
      BY <2>4, <1>12, <1>15, <1>17
    <3>3. e[2].word = "!done" /\ e[2].row = NoRow
      BY <2>2, <1>9
    <3>4. AnswerOf(unsent', k, n, p, c)
      BY <2>1, <2>4, <3>1, <3>2, <3>3, <1>13, <1>14 DEF AnswerOf
    <3> QED
      BY <3>4, <1>3, <1>4, <1>5, <1>11, <1>15
  <2> QED
    BY <2>2, <2>3, <2>4, <1>9
<1> QED
  BY <1>9, <1>18, <1>19

LEMMA FollowingRow ==
    \A p, c : \A i \in Nat : Following(Row(p, c, i)) = Row(p, c, i + 1)
BY DEF Following, Row

\* The sentences of an answer, one after the other.
LEMMA AnswerInside ==
    ASSUME NEW a, NEW k \in Nat, NEW n, NEW p, NEW c, AnswerOf(a, k, n, p, c)
    PROVE  /\ a \in Seq(Sentences) /\ Len(a) \in {k + 1, k + 2}
           /\ a[Len(a)].word \in Ends
           /\ \A j \in 1..k : a[j].word \notin Ends
           /\ \A j \in 1..Len(a) :
                 /\ a[j].word = "!re" => a[j].row # NoRow
                 /\ a[j].word = "none" =>
                       /\ a[j].row = NoRow
                       /\ j < Len(a) => a[j + 1].row = NoRow
                 /\ a[j].row # NoRow =>
                       /\ a[j].row = Row(p, c, j)
                       /\ j > 1 => a[j - 1].word = "!re"
                                    /\ a[j - 1].row = Row(p, c, j - 1)
<1>1. a \in Seq(Sentences)
  BY DEF AnswerOf
<1>2. \A i \in 1..k : /\ a[i].word = "!re" /\ a[i].row = Row(p, c, i)
                       /\ a[i].row # NoRow /\ a[i].word \notin Ends
                       /\ a[i].word # "none"
  BY NoRowTyped DEF AnswerOf, Ends
<1>3. CASE /\ Len(a) = k + 1 /\ a[k + 1].word \in Ends
           /\ a[k + 1].row \in {NoRow, Row(p, c, k + 1)}
  <2>1. a[k + 1].word # "!re" /\ a[k + 1].word # "none"
    BY <1>3 DEF Ends
  <2>2. \A j \in 1..Len(a) : j \in 1..k \/ j = k + 1
    BY <1>3
  <2>3. \A j \in 1..Len(a) : j > 1 => j - 1 \in 1..k
    BY <1>3
  <2> QED
    BY <1>1, <1>2, <1>3, <2>1, <2>2, <2>3
<1>4. CASE /\ Len(a) = k + 2
           /\ \/ a[k + 1].word = "none" /\ a[k + 1].row = NoRow
              \/ a[k + 1].word = "!trap" /\ a[k + 1].row = Row(p, c, k + 1)
           /\ a[k + 2].word = "!done" /\ a[k + 2].row = NoRow
  <2>1. /\ a[k + 2].word # "!re" /\ a[k + 2].word # "none"
        /\ a[k + 2].word \in Ends /\ a[k + 1].word # "!re"
    BY <1>4 DEF Ends
  <2>2. \A j \in 1..Len(a) : j \in 1..k \/ j = k + 1 \/ j = k + 2
    BY <1>4
  <2>3. \A j \in 1..(k + 1) : j > 1 => j - 1 \in 1..k
    OBVIOUS
  <2>4. k + 1 \in 1..(k + 1) /\ (k + 1) + 1 = k + 2
        /\ \A j \in 1..k : j \in 1..(k + 1)
    OBVIOUS
  <2> QED
    BY <1>1, <1>2, <1>4, <2>1, <2>2, <2>3, <2>4
<1> QED
  BY <1>3, <1>4 DEF AnswerOf

LEMMA AnswersFollow ==
    ASSUME SessionInv, linked, unsent = << >>,
           UNCHANGED <<linked, wire, reply>>,
           NEW k \in Nat, NEW n, NEW p, NEW c, AnswerOf(unsent', k, n, p, c)
    PROVE  /\ Stream' = Stream \o unsent'
           /\ RowsFollow'
<1> DEFINE a == unsent'
           L == Len(Stream)
<1>1. /\ a \in Seq(Sentences) /\ Len(a) \in {k + 1, k + 2}
      /\ a[Len(a)].word \in Ends
      /\ \A j \in 1..Len(a) :
            /\ a[j].word = "!re" => a[j].row # NoRow
            /\ a[j].word = "none" =>
                  /\ a[j].row = NoRow
                  /\ j < Len(a) => a[j + 1].row = NoRow
            /\ a[j].row # NoRow =>
                  /\ a[j].row = Row(p, c, j)
                  /\ j > 1 => a[j - 1].word = "!re"
                               /\ a[j - 1].row = Row(p, c, j - 1)
  BY AnswerInside
<1>2. Stream \in Seq(Sentences) /\ L \in Nat /\ Stream = wire
  BY StreamIs
<1>3. Stream' = Stream \o a
  BY <1>2 DEF Stream
<1>4. /\ Stream' \in Seq(Sentences) /\ Len(Stream') = L + Len(a)
      /\ \A i \in 1..L : Stream'[i] = Stream[i]
      /\ \A i \in (L + 1)..(L + Len(a)) : Stream'[i] = a[i - L]
  BY <1>1, <1>2, <1>3, Joined
<1>5. IF Stream = << >> THEN reply = << >> ELSE Stream[L].word \in Ends
  BY DEF SessionInv, RowsFollow
<1>6. Len(a) \in Nat \ {0}
  BY <1>1
<1>7. \A i \in 1..L :
         /\ Stream[i].word = "!re" => Stream[i].row # NoRow
         /\ Stream[i].word = "none" =>
               /\ Stream[i].row = NoRow
               /\ i < L => Stream[i + 1].row = NoRow
         /\ Stream[i].row # NoRow =>
               IF Before(i) = NoRow THEN Stream[i].row.index = 1
                                    ELSE Stream[i].row = Following(Before(i))
  BY DEF SessionInv, RowsFollow
<1> HIDE DEF a, L
<1>8. ASSUME NEW i \in 1..L
      PROVE  /\ Stream'[i].word = "!re" => Stream'[i].row # NoRow
             /\ Stream'[i].word = "none" =>
                   /\ Stream'[i].row = NoRow
                   /\ i < Len(Stream') => Stream'[i + 1].row = NoRow
             /\ Stream'[i].row # NoRow =>
                   IF Before(i)' = NoRow THEN Stream'[i].row.index = 1
                   ELSE Stream'[i].row = Following(Before(i)')
  <2>1. Stream'[i] = Stream[i]
    BY <1>4
  <2>2. i > 1 => Stream'[i - 1] = Stream[i - 1]
    BY <1>2, <1>4
  <2>3. Before(i)' = Before(i)
    BY <2>2 DEF Before
  <2>4. Stream[i].word = "none" => i < L
    <3>1. i = L => Stream # << >>
      BY <1>2, <1>8 DEF L
    <3>2. i = L => Stream[i].word \in Ends
      BY <3>1, <1>5
    <3>3. "none" \notin Ends
      BY DEF Ends
    <3>4. i = L \/ i < L
      BY <1>2
    <3> QED
      BY <3>2, <3>3, <3>4
  <2>5. i < L => Stream'[i + 1] = Stream[i + 1]
    BY <1>2, <1>4
  <2> QED
    BY <2>1, <2>3, <2>4, <2>5, <1>7
<1>9. ASSUME NEW i \in (L + 1)..(L + Len(a))
      PROVE  /\ Stream'[i].word = "!re" => Stream'[i].row # NoRow
             /\ Stream'[i].word = "none" =>
                   /\ Stream'[i].row = NoRow
                   /\ i < Len(Stream') => Stream'[i + 1].row = NoRow
             /\ Stream'[i].row # NoRow =>
                   IF Before(i)' = NoRow THEN Stream'[i].row.index = 1
                   ELSE Stream'[i].row = Following(Before(i)')
  <2> DEFINE j == i - L
  <2>1. j \in 1..Len(a) /\ Stream'[i] = a[j]
    BY <1>2, <1>4, <1>6
  <2>2. i < Len(Stream') => j < Len(a) /\ Stream'[i + 1] = a[j + 1]
    <3>1. i < Len(Stream') => /\ i + 1 \in (L + 1)..(L + Len(a))
                               /\ (i + 1) - L = j + 1 /\ j < Len(a)
      BY <1>2, <1>4, <1>6
    <3> QED
      BY <3>1, <1>4
  <2>3. ASSUME j = 1, a[j].row # NoRow
        PROVE  Before(i)' = NoRow /\ a[j].row.index = 1
    <3>1. Before(i)' = NoRow
      <4>1. CASE Stream = << >>
        <5>1. L = 0 /\ i = 1 /\ reply = << >>
          BY <4>1, <1>2, <1>5, <2>3 DEF L
        <5> QED
          BY <5>1 DEF Before
      <4>2. CASE Stream # << >>
        <5>1. L > 0 /\ i - 1 = L /\ i > 1 /\ L \in 1..L
          BY <4>2, <1>2, <2>3, EmptySeq DEF L
        <5>2. Stream'[i - 1] = Stream[L] /\ Stream[L].word \in Ends
          BY <4>2, <5>1, <1>4, <1>5
        <5>3. Stream'[i - 1].word # "!re"
          BY <5>2 DEF Ends
        <5> QED
          BY <5>1, <5>3 DEF Before
      <4> QED
        BY <4>1, <4>2
    <3>2. a[j].row = Row(p, c, 1)
      BY <1>1, <2>1, <2>3
    <3>3. Row(p, c, 1).index = 1
      BY DEF Row
    <3> QED
      BY <3>1, <3>2, <3>3
  <2>4. ASSUME j > 1, a[j].row # NoRow
        PROVE  a[j].row = Following(Before(i)') /\ Before(i)' # NoRow
    <3>1. /\ a[j].row = Row(p, c, j)
          /\ a[j - 1].word = "!re" /\ a[j - 1].row = Row(p, c, j - 1)
      BY <1>1, <2>1, <2>4
    <3>2. /\ i > 1 /\ i - 1 \in (L + 1)..(L + Len(a)) /\ (i - 1) - L = j - 1
          /\ j - 1 \in Nat \ {0} /\ (j - 1) + 1 = j
      BY <1>2, <1>6, <2>1, <2>4
    <3>3. Stream'[i - 1] = a[j - 1]
      BY <3>2, <1>4
    <3>4. Before(i)' = Row(p, c, j - 1)
      BY <3>1, <3>2, <3>3 DEF Before
    <3>5. Following(Row(p, c, j - 1)) = Row(p, c, (j - 1) + 1)
      BY <3>2, FollowingRow
    <3>6. Row(p, c, j - 1) # NoRow
      BY <3>2, NoRowTyped
    <3> QED
      BY <3>1, <3>2, <3>4, <3>5, <3>6
  <2>5. j = 1 \/ j > 1
    BY <2>1, <1>6
  <2> HIDE DEF j
  <2> QED
    BY <2>1, <2>2, <2>3, <2>4, <2>5, <1>1
<1>10. Stream' # << >> /\ Stream'[Len(Stream')].word \in Ends
  <2>1. /\ L + Len(a) \in (L + 1)..(L + Len(a)) /\ (L + Len(a)) - L = Len(a)
        /\ L + Len(a) # 0
    BY <1>2, <1>6
  <2>2. Stream'[L + Len(a)].word \in Ends
    BY <2>1, <1>1, <1>4
  <2>3. Stream' # << >>
    BY <2>1, <1>4, EmptySeq
  <2> QED
    BY <2>2, <2>3, <1>4
<1>11. \A i \in 1..Len(Stream') : i \in 1..L \/ i \in (L + 1)..(L + Len(a))
  BY <1>2, <1>4, <1>6
<1>12. RowsFollow'
  BY <1>8, <1>9, <1>10, <1>11 DEF RowsFollow
<1> QED
  BY <1>3, <1>12 DEF a

\* The router takes up a command of a session in step, and answers it whole.
LEMMA AnswersInStep ==
    ASSUME SessionInv, linked, unsent = << >>, request # << >>,
           UNCHANGED <<linked, wire, at, poll, reply, system, snapshot>>,
           NEW k \in Nat, NEW n \in {k, k + 1}, NEW p, NEW c,
           p = request[1].poll, c = request[1].command,
           AnswerOf(unsent', k, n, p, c), rows' = [rows EXCEPT ![c] = n],
           request' \in Seq(Asked), Len(request') = Len(request) - 1,
           strays \in Nat
    PROVE  /\ InStep'
           /\ strays' = 0 => request' = << >> /\ at # "idle"
<1> SUFFICES ASSUME strays' = 0
             PROVE  /\ OneReply' /\ RowsInOrder' /\ SystemOfThisPoll'
                    /\ SnapshotIsOfThisPoll'
                    /\ request' = << >> /\ at # "idle"
  BY DEF InStep
<1> DEFINE asked == [poll |-> poll, command |-> at]
<1>1. strays = 0 /\ strays' # strays + 1
  BY DEF AnswerOf
<1>2. /\ Stream = << >> /\ reply = << >> /\ at \in Commands
      /\ request = <<asked>> /\ SystemOfThisPoll /\ SnapshotIsOfThisPoll
  BY <1>1 DEF SessionInv, InStep, OneReply
<1>3. p = poll /\ c = at
  <2>1. request[1] = asked
    BY <1>2
  <2> QED
    BY <2>1
<1>4. request' = << >>
  <2>1. Len(request') = 0
    BY <1>2
  <2> QED
    BY <2>1, EmptySeq
<1>5. Stream' = unsent'
  <2>1. Stream' = Stream \o unsent' /\ unsent' \in Seq(Sentences)
    <3>1. Stream' = Stream \o unsent'
      BY AnswersFollow
    <3> QED
      BY <3>1 DEF AnswerOf
  <2> QED
    BY <2>1, <1>2, ConcatEmptySeq
<1>6. at # "idle" /\ at' = at /\ reply' = reply /\ poll' = poll
  BY <1>2 DEF Commands
<1>7. rows'[at] = n
  BY <1>2, <1>3 DEF SessionInv, SessionTypeOK
<1>8. Len(reply') = 0
  BY <1>2, <1>6
<1>9. ASSUME Len(Stream') = k + 1
      PROVE  OneReply' /\ RowsInOrder'
  <2>1. /\ \A i \in 1..k :
              Stream'[i].word = "!re" /\ Stream'[i].row = Row(poll, at, i)
        /\ Stream'[k + 1].word \in Ends
        /\ \/ n = k /\ Stream'[k + 1].row = NoRow
           \/ n = k + 1 /\ Stream'[k + 1].row = Row(poll, at, k + 1)
    BY <1>3, <1>5, <1>9 DEF AnswerOf
  <2>2. \A i \in 1..Len(Stream') : i = k + 1 \/ i \in 1..k
    BY <1>9
  <2>3. \A i \in 1..k : Stream'[i].word \notin Ends /\ Stream'[i].word # "none"
                         /\ Stream'[i].word # "!done"
    BY <2>1 DEF Ends
  <2>4. Stream'[k + 1].word # "none" /\ Stream'[k + 1].word # "!re"
    BY <2>1 DEF Ends
  <2>5. OneReply'
    BY <2>1, <2>2, <2>3, <2>4, <1>4, <1>6, <1>9, <1>2 DEF OneReply
  <2>6. k + 1 > 1 => Stream'[(k + 1) - 1].word = "!re"
    BY <2>1
  <2>7. Row(poll, at, k + 1) # NoRow
    BY NoRowTyped
  <2>8. \A i \in 1..Len(reply') : reply'[i] = Row(poll', at', i)
    BY <1>8
  <2>9. ASSUME NEW i \in 1..Len(Stream')
        PROVE  /\ Stream'[i].word = "!re" =>
                     Stream'[i].row = Row(poll', at', Len(reply') + i)
               /\ Stream'[i].word = "!done" =>
                     /\ Stream'[i].row \in {NoRow, Row(poll', at', Len(reply') + i)}
                     /\ rows'[at'] =
                           IF Stream'[i].row # NoRow THEN Len(reply') + i
                           ELSE IF i > 1 /\ Stream'[i - 1].word = "none"
                                THEN Len(reply') + i - 2
                                ELSE Len(reply') + i - 1
    BY <2>1, <2>2, <2>3, <2>4, <2>6, <2>7, <1>6, <1>7, <1>8
  <2> QED
    BY <2>5, <2>8, <2>9 DEF RowsInOrder
<1>10. ASSUME Len(Stream') = k + 2
       PROVE  OneReply' /\ RowsInOrder'
  <2>1. /\ \A i \in 1..k :
              Stream'[i].word = "!re" /\ Stream'[i].row = Row(poll, at, i)
        /\ n = k
        /\ Stream'[k + 1].word = "none" /\ Stream'[k + 1].row = NoRow
        /\ Stream'[k + 2].word = "!done" /\ Stream'[k + 2].row = NoRow
    BY <1>1, <1>3, <1>5, <1>10 DEF AnswerOf
  <2>2. \A i \in 1..Len(Stream') : i = k + 1 \/ i = k + 2 \/ i \in 1..k
    BY <1>10
  <2>3. \A i \in 1..k : Stream'[i].word \notin Ends /\ Stream'[i].word # "none"
                         /\ Stream'[i].word # "!done"
    BY <2>1 DEF Ends
  <2>4. Stream'[k + 1].word \notin Ends
    BY <2>1 DEF Ends
  <2>5. OneReply'
    BY <2>1, <2>2, <2>3, <2>4, <1>4, <1>6, <1>10, <1>2 DEF OneReply
  <2>6. Stream'[(k + 2) - 1].word = "none" /\ k + 2 > 1
    BY <2>1
  <2>7. \A i \in 1..Len(reply') : reply'[i] = Row(poll', at', i)
    BY <1>8
  <2>8. ASSUME NEW i \in 1..Len(Stream')
        PROVE  /\ Stream'[i].word = "!re" =>
                     Stream'[i].row = Row(poll', at', Len(reply') + i)
               /\ Stream'[i].word = "!done" =>
                     /\ Stream'[i].row \in {NoRow, Row(poll', at', Len(reply') + i)}
                     /\ rows'[at'] =
                           IF Stream'[i].row # NoRow THEN Len(reply') + i
                           ELSE IF i > 1 /\ Stream'[i - 1].word = "none"
                                THEN Len(reply') + i - 2
                                ELSE Len(reply') + i - 1
    BY <2>1, <2>2, <2>3, <2>6, <1>6, <1>7, <1>8
  <2> QED
    BY <2>5, <2>7, <2>8 DEF RowsInOrder
<1>11. OneReply' /\ RowsInOrder'
  BY <1>5, <1>9, <1>10 DEF AnswerOf
<1>12. SystemOfThisPoll' /\ SnapshotIsOfThisPoll'
  BY <1>2, <1>6 DEF SystemOfThisPoll, SnapshotIsOfThisPoll
<1> QED
  BY <1>4, <1>6, <1>11, <1>12

LEMMA AnswersKeep ==
    ASSUME SessionInv, RouterAnswers
    PROVE  SessionInv'
<1> DEFINE p == request[1].poll
           c == request[1].command
<1>1. /\ linked /\ unsent = << >> /\ request # << >>
      /\ UNCHANGED <<linked, wire, at, poll, reply, system, snapshot>>
      /\ strays' <= MaxStrays
  BY DEF RouterAnswers
<1>2. /\ c \in Commands
      /\ request \in Seq(Asked) /\ Len(request) \in Nat \ {0}
      /\ request' \in Seq(Asked) /\ Len(request') = Len(request) - 1
      /\ \E k \in 0..MaxRows : \E n \in {k, k + 1} :
            AnswerOf(unsent', k, n, p, c) /\ rows' = [rows EXCEPT ![c] = n]
  BY AnswerShape
<1>3. PICK k \in 0..MaxRows : \E n \in {k, k + 1} :
            AnswerOf(unsent', k, n, p, c) /\ rows' = [rows EXCEPT ![c] = n]
  BY <1>2
<1>4. PICK n \in {k, k + 1} :
            AnswerOf(unsent', k, n, p, c) /\ rows' = [rows EXCEPT ![c] = n]
  BY <1>3
<1>5. k \in Nat /\ n \in 0..(MaxRows + 1)
  BY SessionAssumption
<1>6. /\ strays \in Nat /\ MaxStrays \in Nat
      /\ rows \in [Commands -> 0..(MaxRows + 1)]
  BY SessionAssumption DEF SessionInv, SessionTypeOK
<1>7. strays' = strays \/ strays' = strays + 1
  BY <1>4 DEF AnswerOf
<1>8. /\ InStep'
      /\ strays' = 0 => request' = << >> /\ at # "idle"
  BY <1>1, <1>2, <1>4, <1>5, <1>6, AnswersInStep
<1>9. /\ Stream' = Stream \o unsent' /\ RowsFollow'
  BY <1>1, <1>4, <1>5, AnswersFollow
<1>10. /\ unsent' \in Seq(Sentences) /\ Len(unsent') \in {k + 1, k + 2}
       /\ unsent'[Len(unsent')].word \in Ends
       /\ \A j \in 1..k : unsent'[j].word \notin Ends
  BY <1>4, <1>5, AnswerInside
<1> HIDE DEF p, c
<1>11. Stream \in Seq(Sentences) /\ Stream' \in Seq(Sentences)
  BY <1>9, <1>10, StreamIs, Joined
<1>12. SessionTypeOK'
  <2>1. rows' \in [Commands -> 0..(MaxRows + 1)]
    BY <1>2, <1>4, <1>5, <1>6
  <2>2. strays' \in 0..MaxStrays
    BY <1>1, <1>6, <1>7
  <2>3. \A i \in DOMAIN Stream' : Stream'[i].row \in Rows
    BY <1>11, RowsOfStream
  <2>4. request' \in Seq([poll : 0..Polls, command : Commands])
    BY <1>2 DEF Asked
  <2>5. /\ linked' \in BOOLEAN
        /\ at' \in Commands \cup {"idle", "closed"}
        /\ poll' \in 0..Polls
        /\ reply' \in Seq(Rows) /\ Len(reply') <= MaxRows + 1
        /\ system' \in Rows
    BY <1>1 DEF SessionInv, SessionTypeOK
  <2> QED
    BY <2>1, <2>2, <2>3, <2>4, <2>5, <1>1, <1>8 DEF SessionTypeOK
<1>13. StreamTyped'
  BY <1>1, <1>10 DEF SessionInv, StreamTyped
<1>14. ReplyOfOne' /\ RowsOfOneAnswer'
  BY <1>1 DEF SessionInv, ReplyOfOne, RowsOfOneAnswer
<1>15. Owed'
  <2>1. Cardinality(EndsIn(Stream')) = Cardinality(EndsIn(Stream)) + 1
           + (IF Len(unsent') = k + 2 /\ unsent'[k + 1].word \in Ends
                THEN 1 ELSE 0)
    BY <1>5, <1>9, <1>10, <1>11, EndsOfBoth
  <2>2. strays' = strays + (IF Len(unsent') = k + 2 /\ unsent'[k + 1].word \in Ends
                              THEN 1 ELSE 0)
    <3>1. /\ "none" \notin Ends /\ "!trap" \in Ends
          /\ k + 1 # k + 2 /\ strays + 0 = strays
      BY <1>5, <1>6 DEF Ends
    <3> QED
      BY <3>1, <1>4 DEF AnswerOf
  <2>3. Cardinality(EndsIn(Stream)) \in Nat
    BY <1>11, EndsFinite
  <2>4. Len(request) + Cardinality(EndsIn(Stream))
           = strays + (IF at \in Commands THEN 1 ELSE 0)
    BY <1>1 DEF SessionInv, Owed
  <2> DEFINE two == IF Len(unsent') = k + 2 /\ unsent'[k + 1].word \in Ends
                      THEN 1 ELSE 0
             busy == IF at \in Commands THEN 1 ELSE 0
  <2>5. two \in Nat /\ busy \in Nat
    OBVIOUS
  <2> HIDE DEF two, busy
  <2>6. Len(request') + Cardinality(EndsIn(Stream')) = strays' + busy
    <3>1. /\ Cardinality(EndsIn(Stream')) = Cardinality(EndsIn(Stream)) + 1 + two
          /\ strays' = strays + two
          /\ Len(request) + Cardinality(EndsIn(Stream)) = strays + busy
      BY <2>1, <2>2, <2>4 DEF two, busy
    <3>2. Len(request') = Len(request) - 1 /\ Len(request) \in Nat
      BY <1>2
    <3>3. strays \in Nat
      BY <1>6
    <3> QED
      BY <3>1, <3>2, <3>3, <2>3, <2>5
  <2> QED
    BY <2>6, <1>1 DEF Owed, busy
<1> QED
  BY <1>8, <1>9, <1>12, <1>13, <1>14, <1>15 DEF SessionInv

LEMMA SendsKeep ==
    ASSUME SessionInv, RouterSends
    PROVE  SessionInv'
<1>1. /\ linked /\ unsent # << >>
      /\ wire' = Append(wire, unsent[1]) /\ unsent' = Tail(unsent)
      /\ UNCHANGED <<linked, request, at, poll, reply, system, snapshot, rows,
                     strays>>
  BY DEF RouterSends
<1>2. wire \in Seq(Sentences) /\ unsent \in Seq(Sentences)
  BY DEF SessionInv, StreamTyped
<1>3. Len(unsent) \in Nat \ {0} /\ unsent[1] \in Sentences
  BY <1>1, <1>2, EmptySeq, ElementOfSeq
<1>4. /\ wire' \in Seq(Sentences) /\ Len(wire') = Len(wire) + 1
      /\ \A i \in 1..Len(wire) : wire'[i] = wire[i]
      /\ wire'[Len(wire) + 1] = unsent[1]
  BY <1>1, <1>2, <1>3, AppendProperties
<1>5. /\ unsent' \in Seq(Sentences) /\ Len(unsent') = Len(unsent) - 1
      /\ \A i \in 1..Len(unsent') : unsent'[i] = unsent[i + 1]
  BY <1>1, <1>2, HeadTailProperties
<1>6. Stream' = Stream
  <2>1. Len(wire) \in Nat
    BY <1>2, LenProperties
  <2>2. /\ Stream \in Seq(Sentences) /\ Len(Stream) = Len(wire) + Len(unsent)
        /\ \A i \in 1..Len(wire) : Stream[i] = wire[i]
        /\ \A i \in (Len(wire) + 1)..(Len(wire) + Len(unsent)) :
              Stream[i] = unsent[i - Len(wire)]
    BY <1>2, Joined DEF Stream
  <2>3. /\ Stream' \in Seq(Sentences) /\ Len(Stream') = Len(wire') + Len(unsent')
        /\ \A i \in 1..Len(wire') : Stream'[i] = wire'[i]
        /\ \A i \in (Len(wire') + 1)..(Len(wire') + Len(unsent')) :
              Stream'[i] = unsent'[i - Len(wire')]
    BY <1>4, <1>5, Joined DEF Stream
  <2>4. Len(Stream') = Len(Stream)
    BY <2>1, <2>2, <2>3, <1>3, <1>4, <1>5
  <2>5. ASSUME NEW i \in 1..Len(Stream)
        PROVE  Stream'[i] = Stream[i]
    <3>1. CASE i \in 1..Len(wire)
      <4>1. i \in 1..Len(wire')
        BY <3>1, <2>1, <1>4
      <4> QED
        BY <4>1, <3>1, <2>2, <2>3, <1>4
    <3>2. CASE i = Len(wire) + 1
      <4>1. /\ i \in 1..Len(wire') /\ i - Len(wire) = 1
            /\ i \in (Len(wire) + 1)..(Len(wire) + Len(unsent))
        BY <3>2, <2>1, <1>3, <1>4
      <4> QED
        BY <4>1, <3>2, <2>2, <2>3, <1>4
    <3>3. CASE i \in (Len(wire) + 2)..(Len(wire) + Len(unsent))
      <4>1. /\ i \in (Len(wire') + 1)..(Len(wire') + Len(unsent'))
            /\ i \in (Len(wire) + 1)..(Len(wire) + Len(unsent))
            /\ i - Len(wire') \in 1..Len(unsent')
            /\ (i - Len(wire')) + 1 = i - Len(wire)
        BY <3>3, <2>1, <1>3, <1>4, <1>5
      <4> QED
        BY <4>1, <2>2, <2>3, <1>5
    <3> QED
      BY <3>1, <3>2, <3>3, <2>1, <2>2, <1>3
  <2> QED
    BY <2>2, <2>3, <2>4, <2>5, SeqEqual
<1>7. StreamTyped'
  BY <1>1, <1>4, <1>5 DEF SessionInv, StreamTyped
<1>8. SessionTypeOK' /\ Owed'
  BY <1>1, <1>6 DEF SessionInv, SessionTypeOK, Owed
<1>9. RowsFollow'
  <2>1. \A i \in 1..Len(Stream) : Before(i)' = Before(i)
    BY <1>1, <1>6 DEF Before
  <2> QED
    BY <2>1, <1>1, <1>6 DEF SessionInv, RowsFollow
<1>10. ReplyOfOne' /\ RowsOfOneAnswer'
  BY <1>1 DEF SessionInv, ReplyOfOne, RowsOfOneAnswer
<1>11. /\ OneReply => OneReply'
       /\ RowsInOrder => RowsInOrder'
  BY <1>1, <1>6 DEF OneReply, RowsInOrder
<1>12. InStep'
  BY <1>1, <1>11 DEF SessionInv, InStep, SystemOfThisPoll, SnapshotIsOfThisPoll
<1> QED
  BY <1>7, <1>8, <1>9, <1>10, <1>12 DEF SessionInv

\* What still arrives of the stream cut short is its beginning.
LEMMA BreakKeeps ==
    ASSUME SessionInv, LinkBreaks
    PROVE  SessionInv'
<1>1. PICK m \in 0..Len(wire) : wire' = SubSeq(wire, 1, m)
  BY DEF LinkBreaks
<1>2. /\ linked /\ ~linked' /\ linked' \in BOOLEAN
      /\ request' = << >> /\ unsent' = << >>
      /\ UNCHANGED <<at, poll, reply, system, snapshot, rows, strays>>
  BY DEF LinkBreaks
<1>3. /\ wire \in Seq(Sentences) /\ unsent \in Seq(Sentences)
      /\ Len(wire) \in Nat /\ Len(unsent) \in Nat
  BY LenProperties DEF SessionInv, StreamTyped
<1>4. /\ Stream \in Seq(Sentences) /\ Len(Stream) = Len(wire) + Len(unsent)
      /\ \A i \in 1..Len(wire) : Stream[i] = wire[i]
  BY <1>3, Joined DEF Stream
<1>5. /\ wire' \in Seq(Sentences) /\ Len(wire') = m
      /\ \A i \in 1..m : wire'[i] = wire[i]
  BY <1>1, <1>3, SubSeqProperties
<1>6. Stream' = wire' /\ Stream' \in Seq(Sentences)
  BY <1>2, <1>5, ConcatEmptySeq DEF Stream
<1>7. /\ Len(Stream') = m /\ m \in 0..Len(Stream) /\ Len(Stream) \in Nat
      /\ \A i \in 1..m : Stream'[i] = Stream[i]
  BY <1>3, <1>4, <1>5, <1>6
<1>8. \A i \in 1..Len(Stream') :
         /\ i \in 1..Len(Stream) /\ Stream'[i] = Stream[i]
         /\ i > 1 => Stream'[i - 1] = Stream[i - 1]
         /\ i < Len(Stream') => i < Len(Stream) /\ Stream'[i + 1] = Stream[i + 1]
  BY <1>7
<1>9. strays = 0 /\ at \notin Commands => Stream' = << >>
  <2>1. strays = 0 /\ at \notin Commands => Stream = << >>
    BY DEF SessionInv, InStep, OneReply
  <2>2. Stream = << >> => Len(Stream') = 0
    BY <1>7
  <2> QED
    BY <2>1, <2>2, <1>6, EmptySeq
<1>10. SessionTypeOK'
  <2>1. \A i \in DOMAIN Stream' : Stream'[i].row \in Rows
    BY <1>6, RowsOfStream
  <2>2. request' \in Seq([poll : 0..Polls, command : Commands])
    BY <1>2, EmptySeq
  <2>3. strays' = 0 => /\ request' \in {<< >>, <<[poll |-> poll', command |-> at']>>}
                       /\ at' = "idle" => request' = << >> /\ Stream' = << >>
    BY <1>2, <1>9 DEF Commands
  <2>4. /\ at' \in Commands \cup {"idle", "closed"} /\ poll' \in 0..Polls
        /\ reply' \in Seq(Rows) /\ Len(reply') <= MaxRows + 1
        /\ system' \in Rows /\ rows' \in [Commands -> 0..(MaxRows + 1)]
        /\ strays' \in 0..MaxStrays
    BY <1>2 DEF SessionInv, SessionTypeOK
  <2> QED
    BY <2>1, <2>2, <2>3, <2>4, <1>2 DEF SessionTypeOK
<1>11. StreamTyped'
  BY <1>2, <1>5, EmptySeq DEF SessionInv, StreamTyped
<1>12. RowsFollow'
  <2>1. \A i \in 1..Len(Stream') : Before(i)' = Before(i)
    BY <1>2, <1>8 DEF Before
  <2>2. RowsFollow
    BY DEF SessionInv
  <2> QED
    BY <2>1, <2>2, <1>2, <1>8 DEF RowsFollow
<1>13. ReplyOfOne' /\ RowsOfOneAnswer' /\ Owed'
  BY <1>2 DEF SessionInv, ReplyOfOne, RowsOfOneAnswer, Owed
<1>14. ASSUME strays = 0
       PROVE  /\ OneReply' /\ RowsInOrder' /\ SystemOfThisPoll'
              /\ SnapshotIsOfThisPoll'
  <2>1. /\ OneReply /\ RowsInOrder /\ SystemOfThisPoll /\ SnapshotIsOfThisPoll
    BY <1>14 DEF SessionInv, InStep
  <2>2. OneReply'
    <3>1. ASSUME NEW i \in 1..Len(Stream')
          PROVE  /\ Stream'[i].word \in Ends => i = Len(Stream')
                 /\ Stream'[i].word = "none" =>
                       /\ i >= Len(Stream') - 1
                       /\ i = Len(Stream') - 1 =>
                             /\ Stream'[i + 1].word = "!done"
                             /\ Stream'[i + 1].row = NoRow
      <4>1. /\ Stream[i].word \in Ends => i = Len(Stream)
            /\ Stream[i].word = "none" =>
                  /\ i >= Len(Stream) - 1
                  /\ i = Len(Stream) - 1 => /\ Stream[i + 1].word = "!done"
                                            /\ Stream[i + 1].row = NoRow
        BY <2>1, <1>8 DEF OneReply
      <4>2. /\ Stream'[i] = Stream[i]
            /\ i < Len(Stream') => Stream'[i + 1] = Stream[i + 1]
        BY <1>8
      <4>3. /\ i = Len(Stream) => i = Len(Stream')
            /\ i >= Len(Stream) - 1 => i >= Len(Stream') - 1
            /\ i = Len(Stream') - 1 => i < Len(Stream')
            /\ i >= Len(Stream) - 1 /\ i = Len(Stream') - 1 => i = Len(Stream) - 1
        BY <1>7
      <4> QED
        BY <4>1, <4>2, <4>3
    <3> QED
      BY <3>1, <1>2, <1>9, <1>14 DEF OneReply
  <2>3. RowsInOrder'
    BY <2>1, <1>2, <1>8 DEF RowsInOrder
  <2>4. SystemOfThisPoll' /\ SnapshotIsOfThisPoll'
    BY <2>1, <1>2 DEF SystemOfThisPoll, SnapshotIsOfThisPoll
  <2> QED
    BY <2>2, <2>3, <2>4
<1>15. InStep'
  BY <1>2, <1>14 DEF InStep
<1> QED
  BY <1>10, <1>11, <1>12, <1>13, <1>15 DEF SessionInv
----------------------------------------------------------------------------
(* The steps of the client.                                                *)

\* The poll is over, or the session is.
LEMMA QuietKeeps ==
    ASSUME SessionInv,
           at' \in {"idle", "closed"}, reply' = << >>, request' = request,
           system' \in Rows, poll' \in 0..Polls, wire' \in Seq(Sentences),
           UNCHANGED <<linked, unsent, rows, strays>>,
           RowsFollow', RowsOfOneAnswer',
           linked => Len(request) + Cardinality(EndsIn(Stream')) = strays,
           strays = 0 => Stream' = << >> /\ request = << >> /\ SnapshotIsOfThisPoll'
    PROVE  SessionInv'
<1>1. at' \notin Commands /\ at' # "interface"
  BY DEF Commands
<1>2. StreamTyped'
  BY DEF SessionInv, StreamTyped
<1>3. strays \in Nat /\ reply' \in Seq(Rows) /\ Len(reply') = 0
      /\ Len(reply') <= MaxRows + 1
  BY EmptySeq, SessionAssumption DEF SessionInv, SessionTypeOK
<1>4. Stream' \in Seq(Sentences)
  BY <1>2, Joined DEF StreamTyped, Stream
<1>5. SessionTypeOK'
  <2>1. \A i \in DOMAIN Stream' : Stream'[i].row \in Rows
    BY <1>4, RowsOfStream
  <2>2. /\ linked' \in BOOLEAN /\ strays' \in 0..MaxStrays
        /\ request' \in Seq([poll : 0..Polls, command : Commands])
        /\ rows' \in [Commands -> 0..(MaxRows + 1)]
    BY DEF SessionInv, SessionTypeOK
  <2> QED
    BY <2>1, <2>2, <1>3 DEF SessionTypeOK
<1>6. ReplyOfOne'
  BY <1>1, <1>3 DEF ReplyOfOne
<1>7. Owed'
  BY <1>1, <1>3 DEF Owed
<1>8. ASSUME strays = 0
      PROVE  /\ OneReply' /\ RowsInOrder' /\ SystemOfThisPoll'
             /\ SnapshotIsOfThisPoll'
  <2>1. Stream' = << >> /\ request' = << >> /\ Len(Stream') = 0
    BY <1>8
  <2> QED
    BY <2>1, <1>1, <1>8
    DEF OneReply, RowsInOrder, SystemOfThisPoll
<1>9. InStep'
  BY <1>8 DEF InStep
<1> QED
  BY <1>2, <1>5, <1>6, <1>7, <1>9 DEF SessionInv

\* A command has just been written.
LEMMA RunKeeps ==
    ASSUME SessionInv, NEW c \in {"resource", "interface"}, Run(c),
           system' \in Rows, poll' \in 0..Polls, wire' \in Seq(Sentences),
           UNCHANGED <<linked, unsent, rows, strays>>,
           RowsFollow', c = "interface" => system'.index = 1,
           linked => Len(request) + Cardinality(EndsIn(Stream')) = strays,
           strays = 0 => /\ Stream' = << >> /\ request = << >>
                         /\ c = "interface" => system' = Row(poll', "resource", 1)
    PROVE  SessionInv'
<1> DEFINE asked == [poll |-> poll', command |-> c]
<1>1. /\ at' = c /\ reply' = << >>
      /\ request' = IF linked THEN Append(request, asked) ELSE request
  BY DEF Run, Written
<1>2. asked \in Asked /\ request \in Seq(Asked)
  BY DEF Commands, Asked, SessionInv, SessionTypeOK
<1>3. /\ request' \in Seq(Asked)
      /\ linked => Len(request') = Len(request) + 1
      /\ ~linked => request' = << >>
      /\ Len(request) \in Nat
      /\ request = << >> => request' \in {<< >>, <<asked>>}
  <2>1. /\ Append(request, asked) \in Seq(Asked)
        /\ Len(Append(request, asked)) = Len(request) + 1
        /\ Len(request) \in Nat
    BY <1>2, AppendProperties, LenProperties
  <2>2. ~linked => request = << >>
    BY DEF SessionInv, StreamTyped
  <2>3. Append(<< >>, asked) = <<asked>>
    OBVIOUS
  <2> QED
    BY <2>1, <2>2, <2>3, <1>1, <1>2
<1>4. at' \in Commands /\ at' # "idle"
  BY <1>1 DEF Commands
<1>5. StreamTyped'
  BY <1>1, <1>3, <1>4 DEF SessionInv, StreamTyped
<1>6. strays \in Nat /\ reply' \in Seq(Rows) /\ Len(reply') = 0
      /\ Len(reply') <= MaxRows + 1
  BY <1>1, EmptySeq, SessionAssumption DEF SessionInv, SessionTypeOK
<1>7. Stream' \in Seq(Sentences)
  BY <1>5, Joined DEF StreamTyped, Stream
<1>8. SessionTypeOK'
  <2>1. \A i \in DOMAIN Stream' : Stream'[i].row \in Rows
    BY <1>7, RowsOfStream
  <2>2. /\ linked' \in BOOLEAN /\ strays' \in 0..MaxStrays
        /\ rows' \in [Commands -> 0..(MaxRows + 1)]
    BY DEF SessionInv, SessionTypeOK
  <2>3. request' \in Seq([poll : 0..Polls, command : Commands])
    BY <1>3 DEF Asked
  <2>4. strays' = 0 => request' \in {<< >>, <<[poll |-> poll', command |-> at']>>}
    BY <1>1, <1>3
  <2> QED
    BY <2>1, <2>2, <2>3, <2>4, <1>4, <1>6 DEF SessionTypeOK
<1>9. ReplyOfOne' /\ RowsOfOneAnswer'
  BY <1>1, <1>4, <1>6 DEF ReplyOfOne, RowsOfOneAnswer
<1>10. Owed'
  <2>1. Cardinality(EndsIn(Stream')) \in Nat
    BY <1>7, EndsFinite
  <2>2. linked => Len(request') = Len(request) + 1 /\ Len(request) \in Nat
    BY <1>3
  <2>3. strays \in Nat
    BY <1>6
  <2>4. linked => Len(request') + Cardinality(EndsIn(Stream')) = strays + 1
    BY <2>1, <2>2, <2>3
  <2> QED
    BY <2>4, <1>4 DEF Owed
<1>11. ASSUME strays = 0
       PROVE  /\ OneReply' /\ RowsInOrder' /\ SystemOfThisPoll'
              /\ SnapshotIsOfThisPoll'
  <2>1. /\ Stream' = << >> /\ Len(Stream') = 0
        /\ request' \in {<< >>, <<asked>>}
        /\ c = "interface" => system' = Row(poll', "resource", 1)
    BY <1>3, <1>11
  <2>2. OneReply'
    BY <2>1, <1>1, <1>4 DEF OneReply
  <2> QED
    BY <2>1, <2>2, <1>1, <1>4, <1>6
    DEF RowsInOrder, SystemOfThisPoll, SnapshotIsOfThisPoll
<1>12. InStep'
  BY <1>11 DEF InStep
<1> QED
  BY <1>5, <1>8, <1>9, <1>10, <1>12 DEF SessionInv

LEMMA BeginKeeps ==
    ASSUME SessionInv, BeginPoll
    PROVE  SessionInv'
<1>1. /\ at = "idle" /\ at \notin Commands
      /\ UNCHANGED <<linked, unsent, wire, rows, strays>>
      /\ poll' = IF poll = Polls THEN 1 ELSE poll + 1
  BY DEF BeginPoll, Commands
<1>2. poll' \in 0..Polls /\ system \in Rows
  BY <1>1, SessionAssumption DEF SessionInv, SessionTypeOK
<1>3. reply = << >> /\ wire' \in Seq(Sentences)
  BY <1>1 DEF SessionInv, StreamTyped
<1>4. reply' = << >>
  BY DEF BeginPoll, Run, Return
<1>5. Stream' = Stream
  BY <1>1 DEF Stream
<1>6. RowsFollow'
  <2>1. \A i \in 1..Len(Stream) : Before(i)' = Before(i)
    BY <1>3, <1>4, <1>5 DEF Before
  <2> QED
    BY <2>1, <1>1, <1>3, <1>4, <1>5 DEF SessionInv, RowsFollow
<1>7. linked => Len(request) + Cardinality(EndsIn(Stream')) = strays
  <2>1. linked => Len(request) + Cardinality(EndsIn(Stream)) = strays + 0
    BY <1>1 DEF SessionInv, Owed
  <2>2. strays + 0 = strays
    BY DEF SessionInv, SessionTypeOK
  <2> QED
    BY <2>1, <2>2, <1>5
<1>8. strays = 0 => Stream' = << >> /\ request = << >>
  BY <1>1, <1>5 DEF SessionInv, InStep, OneReply
<1>9. CASE Run("resource") /\ UNCHANGED <<system, snapshot>>
  BY <1>1, <1>2, <1>3, <1>6, <1>7, <1>8, <1>9, RunKeeps
<1>10. CASE Return(Failed)
  <2>1. /\ at' = "idle" /\ request' = request /\ system' \in Rows
        /\ RowsOfOneAnswer' /\ SnapshotIsOfThisPoll'
    BY <1>10, NoRowTyped
    DEF Return, Failed, RowsOfOneAnswer, SnapshotIsOfThisPoll
  <2> QED
    BY <2>1, <1>1, <1>2, <1>3, <1>4, <1>6, <1>7, <1>8, QuietKeeps
<1> QED
  BY <1>9, <1>10 DEF BeginPoll

\* The stream after one sentence of it was read.
LEMMA RestOfStream ==
    ASSUME SessionInv, Reading, wire' = Tail(wire), unsent' = unsent
    PROVE  /\ wire' \in Seq(Sentences) /\ Stream' \in Seq(Sentences)
           /\ wire[1] = Stream[1] /\ Stream[1] \in Sentences
           /\ Stream # << >>
           /\ Len(Stream) \in Nat \ {0} /\ Len(Stream') = Len(Stream) - 1
           /\ \A i \in 1..Len(Stream') : Stream'[i] = Stream[i + 1]
           /\ Cardinality(EndsIn(Stream)) = Cardinality(EndsIn(Stream'))
                  + (IF Stream[1].word \in Ends THEN 1 ELSE 0)
<1>1. /\ wire \in Seq(Sentences) /\ unsent \in Seq(Sentences) /\ wire # << >>
      /\ Stream \in Seq(Sentences) /\ Stream # << >>
  BY StreamIs DEF SessionInv, StreamTyped, Reading
<1>2. Len(wire) \in Nat \ {0} /\ Len(unsent) \in Nat /\ Len(Stream) \in Nat \ {0}
  BY <1>1, EmptySeq, LenProperties
<1>3. /\ wire' \in Seq(Sentences) /\ Len(wire') = Len(wire) - 1
      /\ \A i \in 1..Len(wire') : wire'[i] = wire[i + 1]
  BY <1>1, HeadTailProperties
<1>4. /\ Len(Stream) = Len(wire) + Len(unsent)
      /\ \A i \in 1..Len(wire) : Stream[i] = wire[i]
      /\ \A i \in (Len(wire) + 1)..(Len(wire) + Len(unsent)) :
            Stream[i] = unsent[i - Len(wire)]
  BY <1>1, Joined DEF Stream
<1>5. /\ Stream' \in Seq(Sentences) /\ Len(Stream') = Len(wire') + Len(unsent)
      /\ \A i \in 1..Len(wire') : Stream'[i] = wire'[i]
      /\ \A i \in (Len(wire') + 1)..(Len(wire') + Len(unsent)) :
            Stream'[i] = unsent[i - Len(wire')]
  BY <1>1, <1>3, Joined DEF Stream
<1>6. Len(Stream') = Len(Stream) - 1
  BY <1>2, <1>3, <1>4, <1>5
<1>7. ASSUME NEW i \in 1..Len(Stream')
      PROVE  Stream'[i] = Stream[i + 1]
  <2>1. CASE i \in 1..Len(wire')
    <3>1. i + 1 \in 1..Len(wire)
      BY <2>1, <1>2, <1>3
    <3> QED
      BY <3>1, <2>1, <1>3, <1>4, <1>5
  <2>2. CASE i \in (Len(wire') + 1)..(Len(wire') + Len(unsent))
    <3>1. /\ i + 1 \in (Len(wire) + 1)..(Len(wire) + Len(unsent))
          /\ (i + 1) - Len(wire) = i - Len(wire')
      BY <2>2, <1>2, <1>3
    <3>2. Stream'[i] = unsent[i - Len(wire')]
      BY <2>2, <1>5
    <3>3. Stream[i + 1] = unsent[(i + 1) - Len(wire)]
      BY <3>1, <1>4
    <3> QED
      BY <3>1, <3>2, <3>3, Zenon
  <2> QED
    BY <2>1, <2>2, <1>2, <1>3, <1>5
<1>8. 1 \in 1..Len(wire) /\ 1 \in 1..Len(Stream)
  BY <1>2
<1>9. wire[1] = Stream[1] /\ Stream[1] \in Sentences
  BY <1>1, <1>4, <1>8, ElementOfSeq
<1>10. Stream' = Tail(Stream)
  <2>1. /\ Tail(Stream) \in Seq(Sentences) /\ Len(Tail(Stream)) = Len(Stream) - 1
        /\ \A i \in 1..Len(Tail(Stream)) : Tail(Stream)[i] = Stream[i + 1]
    BY <1>1, HeadTailProperties
  <2>2. \A i \in 1..Len(Stream') : Stream'[i] = Tail(Stream)[i]
    BY <2>1, <1>6, <1>7
  <2> QED
    BY <2>1, <2>2, <1>5, <1>6, SeqEqual
<1>11. Cardinality(EndsIn(Stream)) = Cardinality(EndsIn(Stream'))
          + (IF Stream[1].word \in Ends THEN 1 ELSE 0)
  BY <1>1, <1>10, EndsOfTail
<1> QED
  BY <1>1, <1>2, <1>3, <1>5, <1>6, <1>7, <1>9, <1>11

\* A row at the head of the stream is the one that follows those read.
LEMMA NextRow ==
    ASSUME SessionInv, Stream # << >>, Stream[1] \in Sentences,
           Stream[1].row # NoRow
    PROVE  LET r == Append(reply, Stream[1].row) IN
           /\ r \in Seq(Rows) /\ Len(r) = Len(reply) + 1
           /\ Len(r) <= MaxRows + 1
           /\ r # << >> /\ r[Len(r)] = Stream[1].row
           /\ \A i \in 1..Len(reply) : r[i] = reply[i]
           /\ \A i \in 1..Len(r) : r[i] = Row(r[1].poll, r[1].command, i)
<1> DEFINE row == Stream[1].row
           r == Append(reply, row)
           n == Len(reply) + 1
<1>1. reply \in Seq(Rows) /\ Len(reply) \in Nat /\ Stream \in Seq(Sentences)
  BY StreamIs
<1>2. row \in Rows
  BY DEF Sentences
<1>3. /\ r \in Seq(Rows) /\ Len(r) = n /\ r[n] = row
      /\ \A i \in 1..Len(reply) : r[i] = reply[i]
  BY <1>1, <1>2, AppendProperties
<1>4. r # << >>
  BY <1>1, <1>3, EmptySeq
<1>5. \A i \in 1..Len(reply) : reply[i] = Row(reply[1].poll, reply[1].command, i)
  BY DEF SessionInv, ReplyOfOne
<1>6. IF Before(1) = NoRow THEN row.index = 1 ELSE row = Following(Before(1))
  <2>1. 1 \in 1..Len(Stream)
    BY <1>1, EmptySeq
  <2> QED
    BY <2>1 DEF SessionInv, RowsFollow
<1> HIDE DEF r, row
<1>7. row = Row(r[1].poll, r[1].command, n)
  <2>1. CASE reply = << >>
    <3>1. Before(1) = NoRow
      BY <2>1 DEF Before
    <3>2. row.index = 1
      BY <3>1, <1>6
    <3>3. n = 1
      BY <2>1, EmptySeq
    <3>4. row = Row(row.poll, row.command, row.index)
      BY <1>2 DEF Rows, Row
    <3> HIDE DEF n
    <3> QED
      BY <3>2, <3>3, <3>4, <1>3
  <2>2. CASE reply # << >>
    <3>1. Len(reply) \in 1..Len(reply) /\ 1 \in 1..Len(reply)
          /\ Len(reply) \in Nat \ {0}
      BY <2>2, <1>1, EmptySeq
    <3>2. Before(1) = reply[Len(reply)]
      BY <2>2 DEF Before
    <3>3. reply[Len(reply)] = Row(reply[1].poll, reply[1].command, Len(reply))
      BY <3>1, <1>5
    <3>4. Before(1) # NoRow
      BY <3>1, <3>2, <3>3, NoRowTyped
    <3>5. row = Row(reply[1].poll, reply[1].command, n)
      BY <3>1, <3>2, <3>3, <3>4, <1>6, FollowingRow
    <3>6. r[1] = reply[1]
      BY <3>1, <1>3
    <3> QED
      BY <3>5, <3>6
  <2> QED
    BY <2>1, <2>2
<1>8. n <= MaxRows + 1
  <2>1. row.index = n
    BY <1>7 DEF Row
  <2>2. row.index \in 0..(MaxRows + 1)
    BY <1>2 DEF Rows
  <2> QED
    BY <2>1, <2>2, SessionAssumption
<1>9. \A i \in 1..n : r[i] = Row(r[1].poll, r[1].command, i)
  <2>1. ASSUME NEW i \in 1..Len(reply)
        PROVE  r[i] = Row(r[1].poll, r[1].command, i)
    <3>1. 1 \in 1..Len(reply)
      BY <1>1
    <3>2. r[i] = reply[i] /\ r[1] = reply[1]
      BY <3>1, <1>3
    <3> QED
      BY <3>2, <1>5
  <2>2. \A i \in 1..n : i \in 1..Len(reply) \/ i = n
    BY <1>1
  <2> HIDE DEF n
  <2> QED
    BY <2>1, <2>2, <1>3, <1>7
<1> HIDE DEF n
<1>10. /\ Len(r) <= MaxRows + 1 /\ r[Len(r)] = row
       /\ \A i \in 1..Len(r) : r[i] = Row(r[1].poll, r[1].command, i)
  BY <1>3, <1>8, <1>9
<1> QED
  BY <1>3, <1>4, <1>10 DEF r, row, n

\* What a reply comes to with the sentence at the head of the stream.
LEMMA CollectedOfOne ==
    ASSUME SessionInv, Reading, wire[1] = Stream[1], Stream # << >>,
           Stream[1] \in Sentences
    PROVE  /\ Collected \in Seq(Rows)
           /\ \A i \in 1..Len(Collected) :
                 Collected[i] = Row(Collected[1].poll, Collected[1].command, i)
<1>1. CASE Stream[1].row = NoRow
  <2>1. Collected = reply
    BY <1>1 DEF Collected
  <2> QED
    BY <2>1 DEF SessionInv, SessionTypeOK, ReplyOfOne
<1>2. CASE Stream[1].row # NoRow
  <2>1. Collected = Append(reply, Stream[1].row)
    BY <1>2 DEF Collected
  <2>2. /\ Append(reply, Stream[1].row) \in Seq(Rows)
        /\ \A i \in 1..Len(Append(reply, Stream[1].row)) :
              Append(reply, Stream[1].row)[i] =
                  Row(Append(reply, Stream[1].row)[1].poll,
                      Append(reply, Stream[1].row)[1].command, i)
    BY <1>2, NextRow
  <2> QED
    BY <2>1, <2>2
<1> QED
  BY <1>1, <1>2

\* The rows still to come follow those read, one of them more or an end later.
LEMMA RestFollows ==
    ASSUME SessionInv, Reading, wire' = Tail(wire),
           UNCHANGED <<linked, unsent>>,
           Stream[1].word = "!re" => reply' = Append(reply, Stream[1].row),
           Stream[1].word = "none" => reply' = reply,
           Stream[1].word \in Ends => reply' = << >>
    PROVE  RowsFollow'
<1>1. /\ Stream' \in Seq(Sentences) /\ Stream[1] \in Sentences
      /\ Stream # << >>
      /\ Len(Stream) \in Nat \ {0} /\ Len(Stream') = Len(Stream) - 1
      /\ \A i \in 1..Len(Stream') : Stream'[i] = Stream[i + 1]
  BY RestOfStream
<1>2. /\ \A i \in 1..Len(Stream) :
            /\ Stream[i].word = "!re" => Stream[i].row # NoRow
            /\ Stream[i].word = "none" =>
                  /\ Stream[i].row = NoRow
                  /\ i < Len(Stream) => Stream[i + 1].row = NoRow
            /\ Stream[i].row # NoRow =>
                  IF Before(i) = NoRow THEN Stream[i].row.index = 1
                                       ELSE Stream[i].row = Following(Before(i))
      /\ linked => Stream[Len(Stream)].word \in Ends
  BY <1>1 DEF SessionInv, RowsFollow
<1>3. Stream[1].word \in {"!re", "none"} \cup Ends
  BY <1>1 DEF Sentences, Words
<1>4. 1 \in 1..Len(Stream)
  BY <1>1
<1>5. ASSUME NEW i \in 1..Len(Stream')
      PROVE  /\ Stream'[i].word = "!re" => Stream'[i].row # NoRow
             /\ Stream'[i].word = "none" =>
                   /\ Stream'[i].row = NoRow
                   /\ i < Len(Stream') => Stream'[i + 1].row = NoRow
             /\ Stream'[i].row # NoRow =>
                   IF Before(i)' = NoRow THEN Stream'[i].row.index = 1
                   ELSE Stream'[i].row = Following(Before(i)')
  <2>1. /\ i + 1 \in 1..Len(Stream) /\ Stream'[i] = Stream[i + 1]
        /\ i < Len(Stream') => /\ i + 1 < Len(Stream)
                               /\ Stream'[i + 1] = Stream[(i + 1) + 1]
    BY <1>1
  <2>2. Stream[i + 1].row # NoRow => Before(i)' = Before(i + 1)
    <3>1. CASE i > 1
      <4>1. /\ i - 1 \in 1..Len(Stream') /\ (i - 1) + 1 = i /\ i + 1 > 1
            /\ (i + 1) - 1 = i
        BY <3>1
      <4>2. Stream'[i - 1] = Stream[(i + 1) - 1]
        BY <4>1, <1>1
      <4> QED
        BY <3>1, <4>1, <4>2 DEF Before
    <3>2. CASE i = 1
      <4>1. i + 1 > 1 /\ (i + 1) - 1 = 1 /\ ~(i > 1)
        BY <3>2
      <4>2. Before(i + 1) = IF Stream[1].word = "!re" THEN Stream[1].row ELSE NoRow
        BY <4>1 DEF Before
      <4>3. Before(i)' = IF reply' = << >> THEN NoRow ELSE reply'[Len(reply')]
        BY <4>1 DEF Before
      <4>4. CASE Stream[1].word = "!re"
        <5>1. Stream[1].row # NoRow
          BY <4>4, <1>2, <1>4
        <5>2. reply' # << >> /\ reply'[Len(reply')] = Stream[1].row
          BY <4>4, <5>1, <1>1, NextRow
        <5> QED
          BY <4>2, <4>3, <4>4, <5>2
      <4>5. CASE Stream[1].word = "none"
        <5>1. 1 < Len(Stream)
          BY <2>1, <3>2, <1>1
        <5>2. Stream[1 + 1].row = NoRow
          BY <4>5, <5>1, <1>2, <1>4
        <5> QED
          BY <5>2, <3>2
      <4>6. CASE Stream[1].word \in Ends
        <5>1. Stream[1].word # "!re" /\ reply' = << >>
          BY <4>6 DEF Ends
        <5> QED
          BY <4>2, <4>3, <5>1
      <4> QED
        BY <1>3, <4>4, <4>5, <4>6
    <3>3. i = 1 \/ i > 1
      BY <1>1
    <3> QED
      BY <3>1, <3>2, <3>3
  <2>3. Stream[i + 1].row # NoRow =>
           IF Before(i + 1) = NoRow THEN Stream[i + 1].row.index = 1
           ELSE Stream[i + 1].row = Following(Before(i + 1))
    BY <2>1, <1>2
  <2> QED
    BY <2>1, <2>2, <2>3, <1>2
<1>6. linked' => IF Stream' = << >> THEN reply' = << >>
                 ELSE Stream'[Len(Stream')].word \in Ends
  <2>1. CASE Len(Stream) = 1
    <3>1. Stream' = << >>
      BY <2>1, <1>1, EmptySeq
    <3>2. linked => reply' = << >>
      BY <2>1, <1>2
    <3> QED
      BY <3>1, <3>2
  <2>2. CASE Len(Stream) # 1
    <3>1. /\ Len(Stream') \in 1..Len(Stream') /\ Len(Stream') + 1 = Len(Stream)
          /\ Len(Stream') # 0
      BY <2>2, <1>1
    <3>2. Stream' # << >>
      BY <3>1, EmptySeq
    <3>3. Stream'[Len(Stream')] = Stream[Len(Stream)]
      BY <3>1, <1>1
    <3> QED
      BY <3>2, <3>3, <1>2
  <2> QED
    BY <2>1, <2>2
<1> QED
  BY <1>5, <1>6 DEF RowsFollow

\* In a session in step the rows read and those to be read stay in order.
LEMMA ReadOnInStep ==
    ASSUME SessionInv, ReadOn, strays = 0
    PROVE  /\ OneReply' /\ RowsInOrder' /\ SystemOfThisPoll'
           /\ SnapshotIsOfThisPoll'
           /\ request' = << >>
<1>1. /\ Reading /\ wire' = Tail(wire) /\ at \in Commands
      /\ wire[1].word \notin Ends
      /\ reply' = IF wire[1].word = "!re" THEN Collected ELSE reply
      /\ UNCHANGED <<linked, request, unsent, at, poll, system, snapshot, rows,
                     strays>>
  BY DEF ReadOn, EndsReply, Reading, Ends
<1>2. /\ Stream' \in Seq(Sentences) /\ wire[1] = Stream[1]
      /\ Stream[1] \in Sentences /\ Stream # << >>
      /\ Len(Stream) \in Nat \ {0} /\ Len(Stream') = Len(Stream) - 1
      /\ \A i \in 1..Len(Stream') : Stream'[i] = Stream[i + 1]
  BY <1>1, RestOfStream
<1>3. reply \in Seq(Rows) /\ Len(reply) \in Nat
  BY StreamIs
<1>4. OneReply /\ RowsInOrder /\ SystemOfThisPoll /\ SnapshotIsOfThisPoll
  BY DEF SessionInv, InStep
<1>5. /\ \A i \in 1..Len(reply) : reply[i] = Row(poll, at, i)
      /\ \A i \in 1..Len(Stream) :
            /\ Stream[i].word = "!re" =>
                  Stream[i].row = Row(poll, at, Len(reply) + i)
            /\ Stream[i].word = "!done" =>
                  /\ Stream[i].row \in {NoRow, Row(poll, at, Len(reply) + i)}
                  /\ rows[at] =
                        IF Stream[i].row # NoRow THEN Len(reply) + i
                        ELSE IF i > 1 /\ Stream[i - 1].word = "none"
                             THEN Len(reply) + i - 2
                             ELSE Len(reply) + i - 1
  BY <1>1, <1>4 DEF RowsInOrder
<1>6. /\ request = << >>
      /\ \A i \in 1..Len(Stream) :
            /\ Stream[i].word \in Ends => i = Len(Stream)
            /\ Stream[i].word = "none" =>
                  /\ i >= Len(Stream) - 1
                  /\ i = Len(Stream) - 1 => /\ Stream[i + 1].word = "!done"
                                            /\ Stream[i + 1].row = NoRow
  BY <1>2, <1>4 DEF OneReply
<1>7. OneReply'
  <2>1. ASSUME NEW i \in 1..Len(Stream')
        PROVE  /\ Stream'[i].word \in Ends => i = Len(Stream')
               /\ Stream'[i].word = "none" =>
                     /\ i >= Len(Stream') - 1
                     /\ i = Len(Stream') - 1 =>
                           /\ Stream'[i + 1].word = "!done"
                           /\ Stream'[i + 1].row = NoRow
    <3>1. /\ i + 1 \in 1..Len(Stream) /\ Stream'[i] = Stream[i + 1]
          /\ i = Len(Stream') - 1 => Stream'[i + 1] = Stream[(i + 1) + 1]
      BY <1>2
    <3>2. /\ i + 1 = Len(Stream) => i = Len(Stream')
          /\ i + 1 >= Len(Stream) - 1 => i >= Len(Stream') - 1
          /\ i = Len(Stream') - 1 => i + 1 = Len(Stream) - 1
      BY <1>2
    <3>3. /\ Stream[i + 1].word \in Ends => i + 1 = Len(Stream)
          /\ Stream[i + 1].word = "none" =>
                /\ i + 1 >= Len(Stream) - 1
                /\ i + 1 = Len(Stream) - 1 =>
                      /\ Stream[(i + 1) + 1].word = "!done"
                      /\ Stream[(i + 1) + 1].row = NoRow
      BY <3>1, <1>6
    <3> QED
      BY <3>1, <3>2, <3>3
  <2> QED
    BY <2>1, <1>1, <1>6 DEF OneReply
<1>8. CASE wire[1].word = "!re"
  <2>1. /\ Stream[1].row = Row(poll, at, Len(reply) + 1)
        /\ Stream[1].row \in Rows
    BY <1>2, <1>5, <1>8 DEF Sentences
  <2>2. Stream[1].row # NoRow
    BY <2>1, <1>3, NoRowTyped
  <2>3. reply' = Append(reply, Stream[1].row)
    BY <1>1, <1>2, <1>8, <2>2 DEF Collected
  <2>4. /\ reply' \in Seq(Rows) /\ Len(reply') = Len(reply) + 1
        /\ \A i \in 1..Len(reply) : reply'[i] = reply[i]
        /\ reply'[Len(reply) + 1] = Stream[1].row
    BY <2>1, <2>3, <1>3, AppendProperties
  <2>5. \A i \in 1..Len(reply') : reply'[i] = Row(poll, at, i)
    BY <2>1, <2>4, <1>3, <1>5
  <2>6. ASSUME NEW i \in 1..Len(Stream')
        PROVE  /\ Stream'[i].word = "!re" =>
                     Stream'[i].row = Row(poll, at, Len(reply') + i)
               /\ Stream'[i].word = "!done" =>
                     /\ Stream'[i].row \in {NoRow, Row(poll, at, Len(reply') + i)}
                     /\ rows[at] =
                           IF Stream'[i].row # NoRow THEN Len(reply') + i
                           ELSE IF i > 1 /\ Stream'[i - 1].word = "none"
                                THEN Len(reply') + i - 2
                                ELSE Len(reply') + i - 1
    <3>1. /\ Stream'[i] = Stream[i + 1] /\ i + 1 \in 1..Len(Stream)
          /\ i \in Nat \ {0}
      BY <1>2
    <3>2. /\ Stream[i + 1].word = "!re" =>
                Stream[i + 1].row = Row(poll, at, Len(reply) + (i + 1))
          /\ Stream[i + 1].word = "!done" =>
                /\ Stream[i + 1].row \in
                      {NoRow, Row(poll, at, Len(reply) + (i + 1))}
                /\ rows[at] =
                      IF Stream[i + 1].row # NoRow THEN Len(reply) + (i + 1)
                      ELSE IF i + 1 > 1 /\ Stream[(i + 1) - 1].word = "none"
                           THEN Len(reply) + (i + 1) - 2
                           ELSE Len(reply) + (i + 1) - 1
      BY <3>1, <1>5
    <3>3. /\ Len(reply) + (i + 1) = Len(reply') + i
          /\ Len(reply) + (i + 1) - 2 = Len(reply') + i - 2
          /\ Len(reply) + (i + 1) - 1 = Len(reply') + i - 1
          /\ (i + 1) - 1 = i /\ i + 1 > 1
      <4>1. Len(reply') = Len(reply) + 1
        BY <2>4
      <4>2. i \in Nat \ {0}
        BY <3>1
      <4> QED
        BY <4>1, <4>2, <1>3
    <3>4. i > 1 /\ Stream'[i - 1].word = "none" <=> Stream[i].word = "none"
      <4>1. CASE i = 1
        BY <4>1, <1>2, <1>8
      <4>2. CASE i > 1
        <5>1. i - 1 \in 1..Len(Stream') /\ (i - 1) + 1 = i
          BY <4>2
        <5>2. Stream'[i - 1] = Stream[i]
          BY <5>1, <1>2
        <5> QED
          BY <4>2, <5>2
      <4>3. i = 1 \/ i > 1
        BY <3>1
      <4> QED
        BY <4>1, <4>2, <4>3
    <3> QED
      BY <3>1, <3>2, <3>3, <3>4
  <2> QED
    BY <2>5, <2>6, <1>1, <1>4, <1>6, <1>7
    DEF RowsInOrder, SystemOfThisPoll, SnapshotIsOfThisPoll
<1>9. CASE wire[1].word # "!re"
  <2>1. reply' = reply
    BY <1>1, <1>9
  <2>2. Stream[1].word = "none"
    BY <1>1, <1>2, <1>9 DEF Sentences, Words
  <2>3. Len(Stream) = 1 \/ Len(Stream) = 2
    BY <2>2, <1>2, <1>6
  <2>4. CASE Len(Stream) = 1
    <3>1. Len(Stream') = 0
      BY <2>4, <1>2
    <3>2. RowsInOrder'
      BY <3>1, <2>1, <1>1, <1>5 DEF RowsInOrder
    <3> QED
      BY <3>2, <1>1, <1>4, <1>6, <1>7 DEF SystemOfThisPoll, SnapshotIsOfThisPoll
  <2>5. CASE Len(Stream) = 2
    <3>1. Stream[2].word = "!done" /\ Stream[2].row = NoRow
      BY <2>2, <2>5, <1>6
    <3>2. Len(Stream') = 1 /\ Stream'[1] = Stream[2]
      BY <2>5, <1>2
    <3>3. rows[at] = Len(reply)
      BY <3>1, <2>2, <2>5, <1>3, <1>5
    <3>4. RowsInOrder'
      BY <3>1, <3>2, <3>3, <2>1, <1>1, <1>3, <1>5 DEF RowsInOrder
    <3> QED
      BY <3>4, <1>1, <1>4, <1>6, <1>7 DEF SystemOfThisPoll, SnapshotIsOfThisPoll
  <2> QED
    BY <2>3, <2>4, <2>5
<1> QED
  BY <1>8, <1>9

\* A row read moves from the stream to the reply.
LEMMA ReadOnKeeps ==
    ASSUME SessionInv, ReadOn
    PROVE  SessionInv'
<1>1. /\ Reading /\ wire' = Tail(wire) /\ unsent' = unsent /\ at \in Commands
      /\ wire[1].word \notin Ends
      /\ reply' = IF wire[1].word = "!re" THEN Collected ELSE reply
      /\ UNCHANGED <<linked, request, unsent, at, poll, system, snapshot, rows,
                     strays>>
  BY DEF ReadOn, EndsReply, Reading, Ends
<1>2. /\ wire' \in Seq(Sentences) /\ Stream' \in Seq(Sentences)
      /\ wire[1] = Stream[1] /\ Stream[1] \in Sentences /\ Stream # << >>
      /\ Len(Stream) \in Nat \ {0}
      /\ Cardinality(EndsIn(Stream)) = Cardinality(EndsIn(Stream'))
             + (IF Stream[1].word \in Ends THEN 1 ELSE 0)
  BY <1>1, RestOfStream
<1>3. Stream[1].word = "!re" => Stream[1].row # NoRow
  <2>1. 1 \in 1..Len(Stream)
    BY <1>2
  <2> QED
    BY <2>1 DEF SessionInv, RowsFollow
<1>4. /\ Stream[1].word = "!re" => reply' = Append(reply, Stream[1].row)
      /\ Stream[1].word = "none" => reply' = reply
      /\ Stream[1].word # "!re" => reply' = reply
  BY <1>1, <1>2, <1>3 DEF Collected
<1>5. RowsFollow'
  BY <1>1, <1>2, <1>4, RestFollows
<1>6. /\ reply' \in Seq(Rows) /\ Len(reply') <= MaxRows + 1
      /\ \A i \in 1..Len(reply') : reply'[i] = Row(reply'[1].poll, reply'[1].command, i)
  <2>1. CASE Stream[1].word = "!re"
    BY <2>1, <1>2, <1>3, <1>4, NextRow
  <2>2. CASE Stream[1].word # "!re"
    BY <2>2, <1>4 DEF SessionInv, SessionTypeOK, ReplyOfOne
  <2> QED
    BY <2>1, <2>2
<1>7. ReplyOfOne'
  BY <1>1, <1>6 DEF SessionInv, ReplyOfOne
<1>8. ASSUME strays = 0
      PROVE  /\ OneReply' /\ RowsInOrder' /\ SystemOfThisPoll'
             /\ SnapshotIsOfThisPoll' /\ request' = << >>
  BY <1>8, ReadOnInStep
<1>9. SessionTypeOK'
  <2>1. \A i \in DOMAIN Stream' : Stream'[i].row \in Rows
    BY <1>2, RowsOfStream
  <2>2. at # "idle"
    BY <1>1 DEF Commands
  <2>3. /\ linked' \in BOOLEAN /\ strays' \in 0..MaxStrays
        /\ request' \in Seq([poll : 0..Polls, command : Commands])
        /\ at' \in Commands \cup {"idle", "closed"} /\ poll' \in 0..Polls
        /\ system' \in Rows /\ rows' \in [Commands -> 0..(MaxRows + 1)]
    BY <1>1 DEF SessionInv, SessionTypeOK
  <2> QED
    BY <2>1, <2>2, <2>3, <1>1, <1>6, <1>8 DEF SessionTypeOK
<1>10. StreamTyped'
  BY <1>1, <1>2 DEF SessionInv, StreamTyped
<1>11. RowsOfOneAnswer'
  BY <1>1 DEF SessionInv, RowsOfOneAnswer
<1>12. Owed'
  <2>1. Cardinality(EndsIn(Stream')) \in Nat
    BY <1>2, EndsFinite
  <2>2. Cardinality(EndsIn(Stream)) = Cardinality(EndsIn(Stream'))
    BY <2>1, <1>1, <1>2
  <2> QED
    BY <2>2, <1>1 DEF SessionInv, Owed
<1>13. InStep'
  BY <1>1, <1>8 DEF InStep
<1> QED
  BY <1>5, <1>7, <1>9, <1>10, <1>11, <1>12, <1>13 DEF SessionInv

\* The end of a reply leaves one reply less to come, and in a session in step
\* nothing; its rows are then all those of the answer.
LEMMA EndOfReply ==
    ASSUME SessionInv, Reading, wire' = Tail(wire), UNCHANGED <<linked, unsent>>,
           wire[1].word \in Ends, reply' = << >>
    PROVE  /\ wire' \in Seq(Sentences)
           /\ RowsFollow'
           /\ linked => Len(request) + Cardinality(EndsIn(Stream')) = strays
           /\ strays = 0 => Stream' = << >> /\ request = << >>
<1>1. /\ wire' \in Seq(Sentences) /\ Stream' \in Seq(Sentences)
      /\ wire[1] = Stream[1] /\ Stream # << >>
      /\ Len(Stream) \in Nat \ {0} /\ Len(Stream') = Len(Stream) - 1
      /\ Cardinality(EndsIn(Stream)) = Cardinality(EndsIn(Stream'))
             + (IF Stream[1].word \in Ends THEN 1 ELSE 0)
  BY RestOfStream
<1>2. Stream[1].word \notin {"!re", "none"}
  BY <1>1 DEF Ends
<1>3. RowsFollow'
  BY <1>1, <1>2, RestFollows
<1>4. linked => Len(request) + Cardinality(EndsIn(Stream')) = strays
  <2>1. linked => Len(request) + Cardinality(EndsIn(Stream)) = strays + 1
    BY DEF SessionInv, Owed, Reading
  <2>2. Cardinality(EndsIn(Stream)) = Cardinality(EndsIn(Stream')) + 1
    BY <1>1
  <2>3. Cardinality(EndsIn(Stream')) \in Nat
    BY <1>1, EndsFinite
  <2>4. request \in Seq(Asked) /\ strays \in Nat
    BY SessionAssumption DEF SessionInv, SessionTypeOK, Asked
  <2>5. Len(request) \in Nat
    BY <2>4, LenProperties
  <2> QED
    BY <2>1, <2>2, <2>3, <2>4, <2>5
<1>5. ASSUME strays = 0
      PROVE  Stream' = << >> /\ request = << >>
  <2>1. OneReply
    BY <1>5 DEF SessionInv, InStep
  <2>2. 1 \in 1..Len(Stream)
    BY <1>1
  <2>3. 1 = Len(Stream) /\ request = << >>
    BY <2>1, <2>2, <1>1 DEF OneReply
  <2>4. Len(Stream') = 0
    BY <2>3, <1>1
  <2> QED
    BY <2>3, <2>4, <1>1, EmptySeq
<1> QED
  BY <1>1, <1>3, <1>4, <1>5

LEMMA AllCollected ==
    ASSUME SessionInv, Reading, wire[1].word = "!done", strays = 0
    PROVE  /\ Len(Collected) = rows[at]
           /\ \A i \in 1..Len(Collected) : Collected[i] = Row(poll, at, i)
<1>1. /\ wire \in Seq(Sentences) /\ wire # << >>
      /\ Stream \in Seq(Sentences) /\ Stream # << >>
      /\ reply \in Seq(Rows) /\ Len(reply) \in Nat
      /\ unsent \in Seq(Sentences) /\ Len(Stream) \in Nat
  BY StreamIs DEF SessionInv, StreamTyped, Reading
<1>2. 1 \in 1..Len(wire) /\ 1 \in 1..Len(Stream)
  BY <1>1, EmptySeq, LenProperties
<1>3. wire[1] = Stream[1] /\ Stream[1] \in Sentences
  BY <1>1, <1>2, Joined, ElementOfSeq DEF Stream
<1>4. RowsInOrder /\ at \in Commands
  BY DEF SessionInv, InStep, Reading
<1>5. /\ \A i \in 1..Len(reply) : reply[i] = Row(poll, at, i)
      /\ Stream[1].row \in {NoRow, Row(poll, at, Len(reply) + 1)}
      /\ rows[at] = IF Stream[1].row # NoRow THEN Len(reply) + 1
                    ELSE IF 1 > 1 /\ Stream[1 - 1].word = "none"
                         THEN Len(reply) + 1 - 2
                         ELSE Len(reply) + 1 - 1
  BY <1>2, <1>3, <1>4 DEF RowsInOrder
<1>6. Stream[1].row # NoRow => rows[at] = Len(reply) + 1
  BY <1>5
<1>7. Stream[1].row = NoRow => rows[at] = Len(reply)
  BY <1>1, <1>5
<1>8. CASE Stream[1].row = NoRow
  <2>1. Collected = reply
    BY <1>3, <1>8 DEF Collected
  <2> QED
    BY <2>1, <1>5, <1>7, <1>8
<1>9. CASE Stream[1].row # NoRow
  <2>1. Collected = Append(reply, Stream[1].row) /\ Stream[1].row \in Rows
    BY <1>3, <1>9 DEF Collected, Sentences
  <2>2. /\ Len(Collected) = Len(reply) + 1
        /\ \A i \in 1..Len(reply) : Collected[i] = reply[i]
        /\ Collected[Len(reply) + 1] = Row(poll, at, Len(reply) + 1)
    BY <2>1, <1>1, <1>5, <1>9, AppendProperties
  <2>3. \A i \in 1..(Len(reply) + 1) : i \in 1..Len(reply) \/ i = Len(reply) + 1
    BY <1>1
  <2> HIDE DEF Collected
  <2> QED
    BY <2>2, <2>3, <1>5, <1>6, <1>9
<1> QED
  BY <1>8, <1>9

\* A failed poll, a login that worked and one that did not.
LEMMA NothingReturned ==
    ASSUME SessionInv, Return(Failed) \/ CloseSession,
           wire' \in Seq(Sentences), RowsFollow',
           UNCHANGED <<linked, unsent, poll, rows, strays>>,
           linked => Len(request) + Cardinality(EndsIn(Stream')) = strays,
           strays = 0 => Stream' = << >> /\ request = << >>
    PROVE  SessionInv'
<1>1. /\ at' \in {"idle", "closed"} /\ reply' = << >> /\ request' = request
      /\ system' \in Rows
  BY NoRowTyped DEF Return, CloseSession, SessionInv, SessionTypeOK
<1>2. at' = "idle" => ~snapshot'.ok
  BY DEF Return, CloseSession, Failed
<1>3. poll' \in 0..Polls
  BY DEF SessionInv, SessionTypeOK
<1>4. RowsOfOneAnswer' /\ SnapshotIsOfThisPoll'
  BY <1>2 DEF RowsOfOneAnswer, SnapshotIsOfThisPoll
<1> QED
  BY <1>1, <1>3, <1>4, QuietKeeps

LEMMA ReadEndKeeps ==
    ASSUME SessionInv, ReadEnd
    PROVE  SessionInv'
<1> DEFINE all == Collected
           done == wire[1].word = "!done"
<1>1. /\ Reading /\ wire' = Tail(wire) /\ wire[1].word \in {"!done", "!trap"}
      /\ UNCHANGED <<linked, unsent, poll, rows, strays>>
      /\ AfterReply(done, all)
  BY DEF ReadEnd, EndsReply
<1>2. reply' = << >>
  BY <1>1 DEF AfterReply, Return, CloseSession, Run
<1>3. wire[1].word \in Ends
  BY <1>1 DEF Ends
<1>4. /\ wire' \in Seq(Sentences)
      /\ RowsFollow'
      /\ linked => Len(request) + Cardinality(EndsIn(Stream')) = strays
      /\ strays = 0 => Stream' = << >> /\ request = << >>
  BY <1>1, <1>2, <1>3, EndOfReply
<1>5. wire[1] = Stream[1] /\ Stream[1] \in Sentences /\ Stream # << >>
  BY <1>1, RestOfStream
<1>6. /\ all \in Seq(Rows)
      /\ \A i \in 1..Len(all) : all[i] = Row(all[1].poll, all[1].command, i)
  BY <1>1, <1>5, CollectedOfOne
<1>7. done /\ strays = 0 => /\ Len(all) = rows[at]
                            /\ \A i \in 1..Len(all) : all[i] = Row(poll, at, i)
  BY <1>1, AllCollected
<1>8. poll \in 0..Polls
  BY DEF SessionInv, SessionTypeOK
<1> HIDE DEF all, done
<1>9. CASE Return(Failed) \/ CloseSession
  BY <1>9, <1>1, <1>4, NothingReturned
<1>10. CASE /\ at = "resource" /\ done /\ all # << >>
            /\ Run("interface") /\ system' = all[1]
  <2>1. 1 \in 1..Len(all)
    BY <1>6, <1>10, EmptySeq, LenProperties
  <2>2. system' \in Rows /\ all[1] = Row(all[1].poll, all[1].command, 1)
    BY <2>1, <1>6, <1>10, ElementOfSeq
  <2>3. system'.index = 1
    BY <2>2, <1>10 DEF Row
  <2>4. strays = 0 => system' = Row(poll', "resource", 1)
    BY <2>1, <1>1, <1>7, <1>10
  <2> QED
    BY <2>2, <2>3, <2>4, <1>1, <1>4, <1>8, <1>10, RunKeeps
<1>11. CASE /\ at = "interface" /\ done
            /\ Return([ok |-> TRUE, system |-> system, interfaces |-> all])
  <2>1. /\ at' = "idle" /\ request' = request /\ system' = NoRow
        /\ snapshot' = [ok |-> TRUE, system |-> system, interfaces |-> all]
    BY <1>11 DEF Return
  <2>2. /\ at' = "idle" /\ system' \in Rows
        /\ snapshot'.ok /\ snapshot'.system = system
        /\ snapshot'.interfaces = all
    BY <2>1, NoRowTyped
  <2>3. system.index = 1
    BY <1>11 DEF SessionInv, ReplyOfOne
  <2>4. RowsOfOneAnswer'
    <3>1. DOMAIN all = 1..Len(all)
      BY <1>6, LenProperties
    <3> QED
      BY <3>1, <2>2, <2>3, <1>6 DEF RowsOfOneAnswer
  <2>5. ASSUME strays = 0
        PROVE  SnapshotIsOfThisPoll'
    <3>1. system = Row(poll, "resource", 1)
      BY <2>5, <1>11 DEF SessionInv, InStep, SystemOfThisPoll
    <3>2. /\ Len(all) = rows["interface"] /\ rows' = rows /\ poll' = poll
          /\ \A i \in 1..Len(all) : all[i] = Row(poll, "interface", i)
      BY <2>5, <1>1, <1>7, <1>11
    <3>3. all = [i \in 1..rows'["interface"] |-> Row(poll', "interface", i)]
      <4>1. all = [i \in 1..Len(all) |-> all[i]]
        BY <1>6
      <4> QED
        BY <4>1, <3>2
    <3> QED
      BY <3>1, <3>2, <3>3, <2>2 DEF SnapshotIsOfThisPoll
  <2> QED
    BY <2>1, <2>2, <2>4, <2>5, <1>1, <1>2, <1>4, <1>8, QuietKeeps
<1> QED
  BY <1>1, <1>9, <1>10, <1>11 DEF AfterReply

LEMMA ReadErrorKeeps ==
    ASSUME SessionInv, ReadError
    PROVE  SessionInv'
<1>1. /\ UNCHANGED <<linked, unsent, poll, rows, strays>>
      /\ Return(Failed) \/ CloseSession
  BY DEF ReadError
<1>2. reply' = << >>
  BY <1>1 DEF Return, CloseSession
<1>3. CASE Reading /\ wire[1].word = "!fatal" /\ wire' = Tail(wire)
  <2>1. /\ wire' \in Seq(Sentences)
        /\ RowsFollow'
        /\ linked => Len(request) + Cardinality(EndsIn(Stream')) = strays
        /\ strays = 0 => Stream' = << >> /\ request = << >>
    BY <1>1, <1>2, <1>3, EndOfReply DEF Ends
  <2> QED
    BY <2>1, <1>1, NothingReturned
<1>4. CASE at \in Commands /\ wire = << >> /\ ~linked /\ UNCHANGED wire
  <2>1. unsent = << >> /\ request = << >> /\ wire' \in Seq(Sentences)
    BY <1>4 DEF SessionInv, StreamTyped
  <2>2. Stream = << >> /\ Stream' = Stream
    BY <2>1, <1>1, <1>4, StreamIs DEF Stream
  <2>3. Len(Stream') = 0 /\ ~linked'
    BY <2>2, <1>1, <1>4
  <2>4. RowsFollow'
    BY <2>3 DEF RowsFollow
  <2> QED
    BY <2>1, <2>2, <2>4, <1>1, <1>4, NothingReturned
<1> QED
  BY <1>3, <1>4 DEF ReadError
----------------------------------------------------------------------------
LEMMA StutterKeeps ==
    ASSUME SessionInv, UNCHANGED vars
    PROVE  SessionInv'
<1>1. UNCHANGED <<linked, request, unsent, wire, at, poll, reply, system,
                  snapshot, rows, strays>>
  BY DEF vars
<1>2. Stream' = Stream
  BY <1>1 DEF Stream
<1>3. \A i \in 1..Len(Stream) : Before(i)' = Before(i)
  BY <1>1, <1>2 DEF Before
<1>4. SessionTypeOK' /\ StreamTyped' /\ ReplyOfOne' /\ RowsOfOneAnswer' /\ Owed'
  BY <1>1, <1>2
  DEF SessionInv, SessionTypeOK, StreamTyped, ReplyOfOne, RowsOfOneAnswer, Owed
<1>5. RowsFollow'
  BY <1>1, <1>2, <1>3 DEF SessionInv, RowsFollow
<1>6. InStep'
  BY <1>1, <1>2 DEF SessionInv, InStep, OneReply, RowsInOrder, SystemOfThisPoll,
                    SnapshotIsOfThisPoll
<1> QED
  BY <1>4, <1>5, <1>6 DEF SessionInv

LEMMA StepKeeps == SessionInv /\ [SessionNext]_vars => SessionInv'
<1> SUFFICES ASSUME SessionInv, [SessionNext]_vars PROVE SessionInv'
  OBVIOUS
<1>1. CASE BeginPoll BY <1>1, BeginKeeps
<1>2. CASE ReadOn BY <1>2, ReadOnKeeps
<1>3. CASE ReadEnd BY <1>3, ReadEndKeeps
<1>4. CASE ReadError BY <1>4, ReadErrorKeeps
<1>5. CASE RouterAnswers BY <1>5, AnswersKeep
<1>6. CASE RouterSends BY <1>6, SendsKeep
<1>7. CASE LinkBreaks BY <1>7, BreakKeeps
<1>8. CASE UNCHANGED vars BY <1>8, StutterKeeps
<1> QED
  BY <1>1, <1>2, <1>3, <1>4, <1>5, <1>6, <1>7, <1>8
  DEF SessionNext, Client, Router

\* The strengthening is inductive.
LEMMA SessionInvariant == SessionSpec => []SessionInv
<1> QED
  BY InitInv, StepKeeps, PTL DEF SessionSpec

\* The session's variables keep their types, and until the first trap with a
\* "!done" after it one command at most is unanswered and nothing is left to be
\* read between polls (client.go:86, routeros_poller.go:39), whatever stalls,
\* breaks, traps and fatals there are.
THEOREM SessionTyping == SessionSpec => []SessionTypeOK
<1>1. SessionInv => SessionTypeOK
  BY DEF SessionInv
<1> QED
  BY <1>1, SessionInvariant, PTL

\* A session whose connection lasts has between polls as many replies too many
\* ahead as traps had a "!done" after them: that is what client.go:124 leaves
\* unread, it is all that is ever left, and no later poll makes up for it.
THEOREM LagOfStrays == SessionSpec => []LagIsStrays
<1>1. SessionInv => LagIsStrays
  <2> SUFFICES ASSUME SessionInv, linked, at = "idle"
               PROVE  strays = Len(request) + Cardinality(EndsIn(Stream))
    BY DEF LagIsStrays, EndsIn
  <2>1. Len(request) + Cardinality(EndsIn(Stream)) = strays + 0
    BY DEF SessionInv, Owed, Commands
  <2>2. strays + 0 = strays
    BY DEF SessionInv, SessionTypeOK
  <2> QED
    BY <2>1, <2>2
<1> QED
  BY <1>1, SessionInvariant, PTL

\* Until the first trap with a "!done" after it, a snapshot is the system row and
\* all the interfaces that the router sent for that very poll, in their order
\* (routeros_poller.go:39), whatever went wrong in the polls before.
THEOREM SnapshotOfOnePoll == SessionSpec => []SnapshotUntilStray
<1>1. SessionInv => SnapshotUntilStray
  BY DEF SessionInv, InStep, SnapshotUntilStray
<1> QED
  BY <1>1, SessionInvariant, PTL

\* In every session, in step or not, the interfaces of a snapshot are the rows
\* of one answer from its first and without a gap, and its system row is the
\* first of one (client.go:101, routeros_poller.go:58).
THEOREM InterfacesOfOneAnswer == SessionSpec => []RowsOfOneAnswer
<1>1. SessionInv => RowsOfOneAnswer
  BY DEF SessionInv
<1> QED
  BY <1>1, SessionInvariant, PTL
----------------------------------------------------------------------------
(* The length before each word.                                            *)

\* Splitting a length into its bytes loses nothing.
LEMMA Digits ==
    ASSUME NEW n \in Nat, n < LengthLimit
    PROVE  /\ Low(n, K * K * K) \in Byte /\ Low(n, K * K) \in Byte
           /\ Low(n, K) \in Byte /\ n % K \in Byte
           /\ n = Low(n, K * K * K) * K * K * K + Low(n, K * K) * K * K
                  + Low(n, K) * K + (n % K)
<1> DEFINE p == n \div 256
           q == p \div 256
           r == q \div 256
<1>1. /\ p \in Nat /\ n % 256 \in 0..255 /\ n = (256 * p) + (n % 256)
  BY SMT
<1>2. /\ q \in Nat /\ p % 256 \in 0..255 /\ p = (256 * q) + (p % 256)
  BY <1>1, SMT
<1>3. /\ r \in Nat /\ q % 256 \in 0..255 /\ q = (256 * r) + (q % 256)
  BY <1>2, SMT
<1>4. q = n \div (256 * 256) /\ r = n \div (256 * 256 * 256)
  BY SMT
<1>5. r \in 0..255
  BY <1>1, <1>2, <1>3, SMT DEF LengthLimit, K
<1>6. r % 256 = r
  BY <1>5, SMT
<1>7. /\ Low(n, K * K * K) = r /\ Low(n, K * K) = q % 256
      /\ Low(n, K) = p % 256
  BY <1>4, <1>6, SMT DEF Low, K
<1> HIDE DEF p, q, r
<1> QED
  BY <1>1, <1>2, <1>3, <1>5, <1>7, SMT DEF K, Byte

\* Setting the bits of a prefix and clearing them again leaves a byte as it was.
LEMMA PrefixBits ==
    /\ \A x \in 0..63 : x % 128 = x /\ (128 + x) % 64 = x
    /\ \A x \in 0..31 : x % 64 = x /\ (192 + x) % 32 = x
    /\ \A x \in 0..15 : x % 32 = x /\ (224 + x) % 16 = x
<1>1. \A x \in 0..63 : x % 128 = x /\ (128 + x) % 64 = x
  BY SMT
<1>2. \A x \in 0..31 : x % 64 = x /\ (192 + x) % 32 = x
  BY SMT
<1>3. \A x \in 0..15 : x % 32 = x /\ (224 + x) % 16 = x
  BY SMT
<1> QED
  BY <1>1, <1>2, <1>3

\* What readLength reads off what writeLength wrote, whatever follows it, is
\* the length that was written, in as many bytes: at every length, the four
\* where the size of the prefix changes included.
THEOREM LengthRoundTrip ==
    ASSUME NEW n \in Nat, n < LengthLimit, NEW rest \in Seq(Byte)
    PROVE  LET s == WriteLength(n) \o rest IN
           /\ ReadLength(s) = n
           /\ PrefixSize(s[1]) = Len(WriteLength(n))
<1> DEFINE a == Low(n, K * K * K)
           b == Low(n, K * K)
           c == Low(n, K)
           d == n % K
           w == WriteLength(n)
           s == w \o rest
<1>1. /\ a \in Byte /\ b \in Byte /\ c \in Byte /\ d \in Byte
      /\ n = a * K * K * K + b * K * K + c * K + d
  BY Digits, SMT
<1> HIDE DEF a, b, c, d
<1>2. /\ n < 64 * K => a = 0 /\ b = 0 /\ c < 64
      /\ n < 32 * K * K => a = 0 /\ b < 32
      /\ n < 16 * K * K * K => a < 16
  BY <1>1, SMT DEF K, Byte
<1>3. w = IF n < 128 THEN <<n>>
          ELSE IF n < 64 * K THEN <<128 + (c % 128), d>>
          ELSE IF n < 32 * K * K THEN <<192 + (b % 64), c, d>>
          ELSE IF n < 16 * K * K * K THEN <<224 + (a % 32), b, c, d>>
          ELSE <<240, a, b, c, d>>
  BY DEF w, WriteLength, a, b, c, d
<1> SUFFICES ReadLength(s) = n /\ PrefixSize(s[1]) = Len(w)
  OBVIOUS
<1>4. ASSUME w \in Seq(Byte)
      PROVE  \A i \in 1..Len(w) : s[i] = w[i]
  BY <1>4, ConcatProperties, LenProperties, SMT DEF s
<1> HIDE DEF w, s
<1>5. CASE n < 128
  <2>1. w = <<n>>
    BY <1>3, <1>5, SMT DEF K
  <2>2. w \in Seq(Byte) /\ Len(w) = 1
    BY <1>1, <1>2, <1>5, <2>1, SMT DEF Byte, K
  <2>3. s[1] = n
    BY <1>4, <2>1, <2>2, SMT
  <2>4. PrefixSize(s[1]) = 1
    BY <1>1, <1>2, <1>5, <2>3, SMT DEF PrefixSize, Byte
  <2>5. ReadLength(s) = n
    BY <1>1, <1>2, <1>5, <2>3, <2>4, SMT DEF ReadLength, K, Byte
  <2> QED
    BY <2>2, <2>4, <2>5
<1>6. CASE n >= 128 /\ n < 64 * K
  <2>0. c \in 0..63
    BY <1>1, <1>2, <1>6, SMT DEF Byte, K
  <2>1. w = <<128 + c, d>>
    <3>1. c % 128 = c
      BY <2>0, PrefixBits
    <3> QED
      BY <1>1, <1>3, <1>6, <3>1, SMT DEF K
  <2>2. w \in Seq(Byte) /\ Len(w) = 2
    BY <1>1, <1>2, <1>6, <2>1, SMT DEF Byte, K
  <2>3. s[1] = 128 + c /\ s[2] = d
    BY <1>4, <2>1, <2>2, SMT
  <2>4. PrefixSize(s[1]) = 2
    BY <1>1, <1>2, <1>6, <2>3, SMT DEF PrefixSize, Byte
  <2>5. ReadLength(s) = (s[1] % 64) * K + s[2]
    BY <2>4, SMT DEF ReadLength
  <2>6. s[1] % 64 = c
    BY <2>0, <2>3, PrefixBits
  <2>7. ReadLength(s) = n
    BY <1>1, <1>2, <1>6, <2>3, <2>5, <2>6, SMT DEF K, Byte
  <2> QED
    BY <2>2, <2>4, <2>7
<1>7. CASE n >= 64 * K /\ n < 32 * K * K
  <2>0. b \in 0..31
    BY <1>1, <1>2, <1>7, SMT DEF Byte, K
  <2>1. w = <<192 + b, c, d>>
    <3>1. b % 64 = b
      BY <2>0, PrefixBits
    <3> QED
      BY <1>1, <1>3, <1>7, <3>1, SMT DEF K
  <2>2. w \in Seq(Byte) /\ Len(w) = 3
    BY <1>1, <1>2, <1>7, <2>1, SMT DEF Byte, K
  <2>3. s[1] = 192 + b /\ s[2] = c /\ s[3] = d
    BY <1>4, <2>1, <2>2, SMT
  <2>4. PrefixSize(s[1]) = 3
    BY <1>1, <1>2, <1>7, <2>3, SMT DEF PrefixSize, Byte
  <2>5. ReadLength(s) = (s[1] % 32) * K * K + s[2] * K + s[3]
    BY <2>4, SMT DEF ReadLength
  <2>6. s[1] % 32 = b
    BY <2>0, <2>3, PrefixBits
  <2>7. ReadLength(s) = n
    BY <1>1, <1>2, <1>7, <2>3, <2>5, <2>6, SMT DEF K, Byte
  <2> QED
    BY <2>2, <2>4, <2>7
<1>8. CASE n >= 32 * K * K /\ n < 16 * K * K * K
  <2>0. a \in 0..15
    BY <1>1, <1>2, <1>8, SMT DEF Byte, K
  <2>1. w = <<224 + a, b, c, d>>
    <3>1. a % 32 = a
      BY <2>0, PrefixBits
    <3> QED
      BY <1>1, <1>3, <1>8, <3>1, SMT DEF K
  <2>2. w \in Seq(Byte) /\ Len(w) = 4
    BY <1>1, <1>2, <1>8, <2>1, SMT DEF Byte, K
  <2>3. s[1] = 224 + a /\ s[2] = b /\ s[3] = c /\ s[4] = d
    BY <1>4, <2>1, <2>2, SMT
  <2>4. PrefixSize(s[1]) = 4
    BY <1>1, <1>2, <1>8, <2>3, SMT DEF PrefixSize, Byte
  <2>5. ReadLength(s) = (s[1] % 16) * K * K * K + s[2] * K * K + s[3] * K + s[4]
    BY <2>4, SMT DEF ReadLength
  <2>6. s[1] % 16 = a
    BY <2>0, <2>3, PrefixBits
  <2>7. ReadLength(s) = n
    BY <1>1, <1>2, <1>8, <2>3, <2>5, <2>6, SMT DEF K, Byte
  <2> QED
    BY <2>2, <2>4, <2>7
<1>9. CASE n >= 16 * K * K * K
  <2>1. w = <<240, a, b, c, d>>
    BY <1>3, <1>9, SMT DEF K
  <2>2. w \in Seq(Byte) /\ Len(w) = 5
    BY <1>1, <1>2, <1>9, <2>1, SMT DEF Byte, K
  <2>3. s[1] = 240 /\ s[2] = a /\ s[3] = b /\ s[4] = c /\ s[5] = d
    BY <1>4, <2>1, <2>2, SMT
  <2>4. PrefixSize(s[1]) = 5
    BY <1>1, <1>2, <1>9, <2>3, SMT DEF PrefixSize, Byte
  <2>5. ReadLength(s) = n
    BY <1>1, <1>2, <1>9, <2>3, <2>4, SMT DEF ReadLength, K, Byte
  <2> QED
    BY <2>2, <2>4, <2>5
<1> QED
  BY <1>5, <1>6, <1>7, <1>8, <1>9, SMT DEF K
============================================================================
