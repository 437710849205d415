------------------------------ MODULE SnmpWalk ------------------------------
(***************************************************************************)
(* internal/snmp/client.go and monitor/snmp_poller.go: a poll of an SNMP   *)
(* agent, which is one Get and then a walk of each of four columns of the  *)
(* interface table, while the table changes. A request, on a socket of its *)
(* own, is answered or not: it is one step, in which the agent looks at    *)
(* its table, and what both sides say goes through SnmpMessage, byte by    *)
(* byte. A row is what follows its column in an OID: a sequence of arcs.   *)
(***************************************************************************)
EXTENDS SnmpMessage

CONSTANTS
    Rows,        \* bound: the rows an agent may have
    WalkLimit,   \* entries after which a walk gives up (10000 in the code)
    Octets,      \* bound: the values of the octet counters
    NameSize,    \* the length of each row's name, and, at << >>, of sysDescr
    Uptime,      \* the agent's sysUpTime
    MaxChanges,  \* bound: changes of the table from one poll to the next
    Orderly      \* does the agent answer a GetNext with what comes next?

ASSUME WalkAssumption ==
    /\ Rows \subseteq Seq(Arc) \ {<< >>} /\ IsFiniteSet(Rows)
    /\ 0 \in Octets /\ Octets \subseteq Nat /\ Octets \subseteq Numbers
    /\ \A p \in Rows \cup {<< >>} : NameSize[p] \in Nat
    /\ Uptime \in Nat /\ Uptime \in Numbers
    /\ WalkLimit \in Nat /\ MaxChanges \in Nat
    /\ Orderly \in BOOLEAN

\* The order of the walks: ifDescr, ifOperStatus, ifInOctets, ifOutOctets.
descr == 1
operStatus == 2
inOctets == 3
outOctets == 4
Columns == descr..outOctets

System == <<1, 3, 6, 1, 2, 1, 1>>
oidSysDescr == System \o <<1, 0>>
oidSysUpTime == System \o <<3, 0>>
IfEntry == <<1, 3, 6, 1, 2, 1, 2, 2, 1>>
Base(c) == IfEntry \o <<(<<2, 8, 10, 16>>)[c]>>
Oid(c, row) == Base(c) \o row

VARIABLES
    table,     \* the agent's interfaces: rows there are, with status and octets
    at,        \* the poller: "idle", in the "get" of the system, or in a "walk"
    uptime,    \* what systemStatus returned to the poll under way
    column,    \* the column walked
    current,   \* the row the walk has come to, << >> at its base
    found,     \* per column, the results of its walk
    snapshot,  \* what the last poll returned, until the next one begins
    always,    \* history: the rows there ever since the last poll began
    seen,      \* history: which rows were there in it, and with which status
    atStart,   \* history: the octets of the rows there when it began
    changes    \* history: how often the table changed since

client == <<at, uptime, column, current, found, snapshot>>
vars == <<table, client, always, seen, atStart, changes>>

NoResults == [c \in Columns |-> << >>]
Failed(why) ==
    [ok |-> FALSE, error |-> why, uptime |-> 0, interfaces |-> << >>]
Interface == [up : BOOLEAN, octets : Octets]
NewInterface == [up : BOOLEAN, octets : {0}]

WalkInit ==
    /\ table \in UNION {[rows -> NewInterface] : rows \in SUBSET Rows}
    /\ at = "idle" /\ uptime = 0 /\ column = descr /\ current = << >>
    /\ found = NoResults
    /\ snapshot = Failed("none")
    /\ always = {} /\ seen = {} /\ atStart = << >> /\ changes = 0
----------------------------------------------------------------------------
(* The agent.                                                              *)

Reply(status, varbinds) == [status |-> status, varbinds |-> varbinds]

\* What it says of a row in a column.
Cell(c, row, up, octets) ==
    CASE c = descr -> VarBind(Oid(c, row), tagOctetStr, NameSize[row])
      [] c = operStatus -> VarBind(Oid(c, row), tagInteger, IF up THEN 1 ELSE 2)
      [] OTHER -> VarBind(Oid(c, row), tagCounter32, octets)

\* After the table, and after all it has.
Beyond == Reply(0, <<VarBind(IfEntry \o <<17, 1>>, tagCounter32, 0)>>)
EndOfMibView(oid) == Reply(0, <<VarBind(oid, tagEndOfMibView, 0)>>)

\* genErr, with the varbinds of the request.
Refusal(oids) == Reply(5, Asking(oids))

SystemOids == <<oidSysDescr, oidSysUpTime>>
SystemReply == Reply(0, <<VarBind(oidSysDescr, tagOctetStr, NameSize[<< >>]),
                          VarBind(oidSysUpTime, tagTimeTicks, Uptime)>>)

Precedes(r, s) ==
    \/ IsStrictPrefix(r, s)
    \/ \E i \in DOMAIN r \cap DOMAIN s :
          r[i] < s[i] /\ SubSeq(r, 1, i - 1) = SubSeq(s, 1, i - 1)

Places == Rows \cup {<< >>}
RowBefore == [p \in Places \X Places |-> Precedes(p[1], p[2])]

\* The arcs of the columns are in their order.
Before(o, p) == o[1] < p[1] \/ (o[1] = p[1] /\ RowBefore[<<o[2], p[2]>>])

GetNextReplies(c, row) ==
    LET later == {o \in Columns \X DOMAIN table : Before(<<c, row>>, o)}
        next == {o \in later : \A p \in later : ~Before(p, o)} IN
    IF ~Orderly
    THEN {Reply(0, <<Cell(o[1], o[2], TRUE, 0)>>) : o \in Columns \X Rows}
             \cup {EndOfMibView(Oid(c, row))}
    ELSE IF later = {} THEN {EndOfMibView(Oid(c, row)), Beyond}
    ELSE {Reply(0, <<Cell(o[1], o[2], table[o[2]].up, table[o[2]].octets)>>) :
             o \in next}

Sight(tab) == {<<i, tab[i].up>> : i \in DOMAIN tab}

\* An interface comes, goes, changes its status or carries traffic.
TableChanges ==
    /\ changes < MaxChanges
    /\ changes' = changes + 1
    /\ \/ \E i \in Rows \ DOMAIN table, new \in NewInterface :
             table' = [x \in DOMAIN table \cup {i} |->
                          IF x = i THEN new ELSE table[x]]
       \/ \E i \in DOMAIN table : table' = Restrict(table, DOMAIN table \ {i})
       \/ \E i \in DOMAIN table :
             table' = [table EXCEPT ![i].up = ~@]
       \/ \E i \in DOMAIN table, o \in Octets :
             /\ table[i].octets < o
             /\ table' = [table EXCEPT ![i].octets = o]
    /\ always' = always \cap DOMAIN table'
    /\ seen' = IF at = "idle" THEN seen ELSE seen \cup Sight(table')
    /\ UNCHANGED <<client, atStart>>
----------------------------------------------------------------------------
(* What passes between them, for every question and reply there may be.    *)

Questions == {Oid(c, row) : c \in Columns, row \in Places}

Replies ==
    {SystemReply, Refusal(SystemOids), Beyond}
        \cup {EndOfMibView(oid) : oid \in Questions}
        \cup {Refusal(<<oid>>) : oid \in Questions}
        \cup {Reply(0, <<Cell(c, row, up, o)>>) :
                 c \in Columns, row \in Rows, up \in BOOLEAN, o \in Octets}

\* A reply is a datagram: an int holds its length.
ASSUME AgentAssumption ==
    \A reply \in Replies, form \in LengthForms, id \in RequestIds :
        Len(MessageAs(form, tagGetResponse, id, reply.status, reply.varbinds))
            < 128 * TopByte

GetArrives == Understood(tagGetRequest, SystemOids)
Arrives == [oid \in Questions |-> Understood(tagGetNextRequest, <<oid>>)]
Read == [reply \in Replies |-> Received(reply)]
----------------------------------------------------------------------------
(* The poller.                                                             *)

BeginPoll ==
    /\ at = "idle"
    /\ at' = "get"
    /\ always' = DOMAIN table /\ seen' = Sight(table)
    /\ atStart' = [i \in DOMAIN table |-> table[i].octets]
    /\ changes' = 0
    /\ snapshot' = Failed("none")
    /\ UNCHANGED <<table, uptime, column, current, found>>

Return(result) ==
    /\ at' = "idle" /\ uptime' = 0 /\ column' = descr /\ current' = << >>
    /\ found' = NoResults
    /\ snapshot' = result

\* Seeded fault: whatever row comes first in a walk is taken for every row.
JoinedByFirst(results) ==
    LET Number(c, i) == IF results[c] = << >> THEN 0
                        ELSE results[c][CHOOSE j \in DOMAIN results[c] : TRUE] IN
    [i \in DOMAIN results[descr] |->
        [running |-> Number(operStatus, i) = 1,
         rx |-> Number(inOctets, i), tx |-> Number(outOctets, i)]]

\* interfaces: a row that another walk did not come by counts as 0 there.
Joined(results) ==
    LET Number(c, i) == IF i \in DOMAIN results[c] THEN results[c][i] ELSE 0 IN
    [i \in DOMAIN results[descr] |->
        [running |-> Number(operStatus, i) = 1,
         rx |-> Number(inOctets, i), tx |-> Number(outOctets, i)]]

Polled(results) ==
    [ok |-> TRUE, error |-> "none", uptime |-> uptime,
     interfaces |-> Joined(results)]

\* Seeded fault: a failed walk passes for one that came to its end.
RequestFailsUnnoticed ==
    /\ at # "idle"
    /\ Return(Polled(found))
    /\ UNCHANGED <<table, always, seen, atStart, changes>>

\* A request whose answer is lost or late is not made again: the poll fails,
\* and what it found is dropped.
RequestFails ==
    /\ at # "idle"
    /\ Return(Failed("lost"))
    /\ UNCHANGED <<table, always, seen, atStart, changes>>

\* The error of a response that could not be used.
NotRead(reply) ==
    Failed(IF reply.status = 0 THEN "malformed" ELSE "refused")

GetSystem(reply) ==
    /\ at = "get" /\ GetArrives
    /\ \E got \in Read[reply] :
          IF ~got.ok THEN Return(NotRead(reply))
          ELSE /\ at' = "walk"
               /\ uptime' = IF oidSysUpTime \in DOMAIN got.results
                            THEN got.results[oidSysUpTime].int \div 100 ELSE 0
               /\ UNCHANGED <<column, current, found, snapshot>>
    /\ UNCHANGED <<table, always, seen, atStart, changes>>

WalkEnds ==
    IF column = outOctets THEN Return(Polled(found))
    ELSE /\ column' = column + 1 /\ current' = << >>
         /\ UNCHANGED <<at, uptime, found, snapshot>>

With(results, i, v) ==
    [x \in DOMAIN results \cup {i} |-> IF x = i THEN v ELSE results[x]]

\* Seeded fault: the walk asks again for what follows its base.
WalkEntryStuck(row, value) ==
    LET results == With(found[column], row, value.int) IN
    IF Cardinality(DOMAIN results) > WalkLimit THEN Return(Failed("limit"))
    ELSE /\ found' = [found EXCEPT ![column] = results]
         /\ UNCHANGED <<at, uptime, column, current, snapshot>>

\* Seeded fault: the limit is off by one.
WalkEntryOneMore(row, value) ==
    LET results == With(found[column], row, value.int) IN
    IF Cardinality(DOMAIN results) > WalkLimit + 1 THEN Return(Failed("limit"))
    ELSE /\ found' = [found EXCEPT ![column] = results]
         /\ current' = row
         /\ UNCHANGED <<at, uptime, column, snapshot>>

\* The limit is on the results, which a row asked for twice adds to once.
WalkEntry(row, value) ==
    LET results == With(found[column], row, value.int) IN
    IF Cardinality(DOMAIN results) > WalkLimit THEN Return(Failed("limit"))
    ELSE /\ found' = [found EXCEPT ![column] = results]
         /\ current' = row
         /\ UNCHANGED <<at, uptime, column, snapshot>>

\* HasPrefix(next, baseOID + "."), of an answer that is not the end.
InSubtree(next, value) ==
    value.kind # "end-of-mib-view" /\ IsStrictPrefix(Base(column), next)

GetNext(reply) ==
    /\ at = "walk" /\ Arrives[Oid(column, current)]
    /\ \E got \in Read[reply] :
          IF ~got.ok THEN Return(NotRead(reply))
          ELSE IF DOMAIN got.results = {} THEN Return(Failed("empty"))
          ELSE \E next \in DOMAIN got.results :
                  IF InSubtree(next, got.results[next])
                  THEN WalkEntry(From(next, Len(Base(column)) + 1),
                                 got.results[next])
                  ELSE WalkEnds
    /\ UNCHANGED <<table, always, seen, atStart, changes>>

\* The agent answers, or says that it cannot.
Answered ==
    \/ GetSystem(SystemReply)
    \/ \E reply \in GetNextReplies(column, current) : GetNext(reply)

Refused ==
    \/ GetSystem(Refusal(SystemOids))
    \/ GetNext(Refusal(<<Oid(column, current)>>))

Poller == BeginPoll \/ Answered \/ Refused \/ RequestFails

WalkNext == Poller \/ TableChanges
WalkSpec == WalkInit /\ [][WalkNext]_vars

\* The polls go on, and a request that is not lost or refused is answered by
\* its deadline. No fairness for the table.
FairWalkSpec == WalkSpec /\ WF_vars(BeginPoll \/ Answered)
----------------------------------------------------------------------------
\* The variables keep their types, and no walk holds more than its limit.
WalkTypeOK ==
    /\ DOMAIN table \subseteq Rows
    /\ \A i \in DOMAIN table : table[i] \in Interface
    /\ at \in {"idle", "get", "walk"}
    /\ column \in Columns
    /\ current \in Places
    /\ \A c \in Columns :
          /\ DOMAIN found[c] \subseteq Rows
          /\ Cardinality(DOMAIN found[c]) <= WalkLimit
          /\ found[c] # << >> => at = "walk" /\ c <= column
    /\ always \subseteq Rows /\ seen \subseteq Rows \X BOOLEAN
    /\ DOMAIN atStart \subseteq Rows /\ changes \in 0..MaxChanges

PollSucceeded == at = "idle" /\ snapshot.ok

\* The table changes between the answers a snapshot is put together from. Even
\* so it has every interface that was there for all of the poll, with both its
\* counters between what they were when the poll began and what they are now
\* (a walk that another row comes or goes beside skips nothing).
LastingAreShown ==
    PollSucceeded =>
        \A i \in always :
            /\ i \in DOMAIN snapshot.interfaces
            /\ i \in DOMAIN atStart
            /\ snapshot.interfaces[i].rx \in atStart[i]..table[i].octets
            /\ snapshot.interfaces[i].tx \in atStart[i]..table[i].octets

\* It shows an interface only if that was there at some time of the poll, as
\* running only if it was up at some time of it, as not running only if it was
\* down, or gone, at some time of it.
NoneInvented ==
    PollSucceeded =>
        \A i \in DOMAIN snapshot.interfaces :
            IF snapshot.interfaces[i].running THEN <<i, TRUE>> \in seen
            ELSE \/ <<i, FALSE>> \in seen
                 \/ i \notin always /\ <<i, TRUE>> \in seen

\* In whichever form an agent writes a reply, the client reads no error as an
\* answer, and no other name or number than was said.
CodecFaithful ==
    \A reply \in Replies : \A got \in Read[reply] : got.ok =>
        /\ reply.status = 0
        /\ DOMAIN got.results = {reply.varbinds[i].oid : i \in DOMAIN reply.varbinds}
        /\ \A i \in DOMAIN reply.varbinds :
              LET said == reply.varbinds[i]
                  value == got.results[said.oid] IN
              /\ value.int = IF said.tag = tagOctetStr THEN 0 ELSE said.n
              /\ value.kind = "end-of-mib-view" <=> said.tag = tagEndOfMibView

\* What an agent says by the standard, in whichever of its forms (lengths in
\* one byte or more, arcs and numbers of several bytes), is read as it was
\* said and never refused: a device that answers is not counted as down. An
\* answer that says there was an error is never taken for one that has values.
AnswersAreRead ==
    /\ snapshot.error \notin {"malformed", "empty"}
    /\ PollSucceeded =>
          /\ snapshot.uptime = Uptime \div 100
          /\ CodecFaithful

\* Every poll ends: each walk comes to the end of its column, however rows come
\* and go, or gives up.
PollEnds == at # "idle" ~> at = "idle"
============================================================================
